---- MODULE Spec2Model ----
(***************************************************************************)
(* Timetable extraction endpoint (src/src/app/api/parse/route.ts).         *)
(*                                                                         *)
(* Texts are sequences of one-character strings, so that the classifiers,  *)
(* the regular expressions and their match positions are computed, not     *)
(* assumed.  Confidence is an integer number of thousandths (1000 = 1.0);  *)
(* every value the code can produce is a whole number of thousandths.      *)
(***************************************************************************)
EXTENDS Integers, Sequences, FiniteSets, TLC

\* The element of a one-element set.  The({F(x) : x \in {e}}) is F(e) with e
\* evaluated once: it names an intermediate value, as a const does.
The(S) == CHOOSE x \in S : TRUE

(***************************************************************************)
(* Characters and the JavaScript string built-ins the code uses.           *)
(***************************************************************************)
UpperAZ == <<"A","B","C","D","E","F","G","H","I","J","K","L","M",
             "N","O","P","Q","R","S","T","U","V","W","X","Y","Z">>
LowerAZ == <<"a","b","c","d","e","f","g","h","i","j","k","l","m",
             "n","o","p","q","r","s","t","u","v","w","x","y","z">>
DigitChars == <<"0","1","2","3","4","5","6","7","8","9">>

Range(f) == {f[i] : i \in DOMAIN f}
LowerSet == Range(LowerAZ)
LetterSet == Range(UpperAZ) \cup LowerSet
DigitSet == Range(DigitChars)
\* \s and \w of a JavaScript regular expression, over the characters cells hold
SpaceSet == {" ", "\n", "\r", "\t"}
WordSet == LetterSet \cup DigitSet \cup {"_"}
\* the three dashes of the class [-\u2013\u2014]: hyphen, en dash, em dash; the two
\* non-ASCII characters are written as the atoms "ndash" and "mdash", each
\* one character of a text
EnDash == "ndash"
EmDash == "mdash"
DashSet == {"-", EnDash, EmDash}

IndexIn(f, c) == CHOOSE i \in DOMAIN f : f[i] = c
toLowerCase(s) ==
    [i \in 1..Len(s) |-> IF s[i] \in Range(UpperAZ) THEN LowerAZ[IndexIn(UpperAZ, s[i])] ELSE s[i]]
toUpperCase(s) ==
    [i \in 1..Len(s) |-> IF s[i] \in LowerSet THEN UpperAZ[IndexIn(LowerAZ, s[i])] ELSE s[i]]

\* the elements of seq at the indices keep, in order (Array.prototype.filter)
Pick(seq, keep) ==
    [j \in 1..Cardinality(keep) |->
        seq[CHOOSE i \in keep : Cardinality({k \in keep : k <= i}) = j]]

\* s.replace(/[class]/g, ""), or /[^class]/g when negated: the characters of s
\* that the class does not take away
Strip(s, class, negated) == Pick(s, {i \in 1..Len(s) : (s[i] \in class) = negated})

\* s.trim()
trim(s) ==
    LET inner == {i \in 1..Len(s) : s[i] \notin SpaceSet}
    IN  IF inner = {} THEN <<>>
        ELSE SubSeq(s, CHOOSE i \in inner : \A j \in inner : i <= j,
                       CHOOSE i \in inner : \A j \in inner : i >= j)

\* s has k at position i (1-based)
HasAt(s, i, k) ==
    /\ i >= 1 /\ i + Len(k) - 1 <= Len(s)
    /\ \A j \in 1..Len(k) : s[i + j - 1] = k[j]
includes(s, k) == \E i \in 1..(Len(s) + 1) : HasAt(s, i, k)

Min(a, b) == IF a < b THEN a ELSE b
\* The least element of a non-empty set of integers
MinOf(S) == CHOOSE x \in S : \A y \in S : x <= y

\* number of consecutive characters from position i that lie in the class cls
RunLen(s, i, cls) ==
    IF i < 1 \/ i > Len(s) THEN 0
    ELSE MinOf({j \in i..(Len(s) + 1) : j > Len(s) \/ s[j] \notin cls}) - i

\* Number(digits) and n.toString()
RECURSIVE ParseInt(_)
ParseInt(s) ==
    IF s = <<>> THEN 0
    ELSE 10 * ParseInt(SubSeq(s, 1, Len(s) - 1)) + (IndexIn(DigitChars, s[Len(s)]) - 1)
RECURSIVE NumToStr(_)
NumToStr(n) ==
    IF n < 10 THEN <<DigitChars[n + 1]>>
    ELSE NumToStr(n \div 10) \o <<DigitChars[(n % 10) + 1]>>
\* n.toString().padStart(2, "0")
PadStart2(n) == IF n < 10 THEN <<"0">> \o NumToStr(n) ELSE NumToStr(n)

\* s.split(sep) for a one-character separator
RECURSIVE Split(_, _)
Split(s, sep) ==
    IF \E i \in 1..Len(s) : s[i] = sep
    THEN <<SubSeq(s, 1, MinOf({j \in 1..Len(s) : s[j] = sep}) - 1)>>
         \o Split(SubSeq(s, MinOf({j \in 1..Len(s) : s[j] = sep}) + 1, Len(s)), sep)
    ELSE <<s>>

(***************************************************************************)
(* Regular expressions.  A pattern is a sequence of elements:              *)
(*   <<"alt", K>>            one of the literals in the set K ("" allowed) *)
(*   <<"rep", cls, lo, hi>>  lo to hi characters of the class cls, greedy  *)
(*   <<"wb">>, <<"bol">>, <<"eol">>   the assertions \b, ^ and $           *)
(* A path is <<start, e1, .., en>>: where the match starts and where it    *)
(* stands after each element (1-based positions).  A backtracking matcher  *)
(* returns the leftmost start and, for it, the first path in the order it  *)
(* tries them: every quantifier greedy, so the longest at each element in  *)
(* turn.  A pattern with the i flag is run on the lower-cased text.        *)
(***************************************************************************)
ReStep(s, paths, el) ==
    CASE el[1] = "alt" ->
           {Append(pk[1], pk[1][Len(pk[1])] + Len(pk[2])) :
                pk \in {x \in paths \X el[2] : HasAt(s, x[1][Len(x[1])], x[2])}}
      [] el[1] = "rep" ->
           UNION {{Append(p, p[Len(p)] + n) :
                       n \in el[3]..Min(el[4], RunLen(s, p[Len(p)], el[2]))} : p \in paths}
      [] el[1] = "wb" ->
           {Append(p, p[Len(p)]) :
                p \in {x \in paths : (RunLen(s, x[Len(x)] - 1, WordSet) > 0)
                                         # (RunLen(s, x[Len(x)], WordSet) > 0)}}
      [] el[1] = "bol" -> {Append(p, 1) : p \in {x \in paths : x[Len(x)] = 1}}
      [] el[1] = "eol" -> {Append(p, Len(s) + 1) : p \in {x \in paths : x[Len(x)] = Len(s) + 1}}

RECURSIVE RePaths(_, _, _)
RePaths(s, paths, pat) ==
    IF pat = <<>> \/ paths = {} THEN paths ELSE RePaths(s, ReStep(s, paths, Head(pat)), Tail(pat))

\* p is tried before q: an earlier start, then the longer choice at the first
\* element where they part
Prefers(p, q) ==
    \E k \in DOMAIN p :
        /\ \A j \in 1..(k - 1) : p[j] = q[j]
        /\ IF k = 1 THEN p[k] < q[k] ELSE p[k] > q[k]

\* regex.exec(s) from the 1-based position from: the path of the match, or
\* <<>>.  t and f are s and from, evaluated before the matcher is entered.
ReExec(s, pat, from) ==
    The({IF all = {} THEN <<>> ELSE CHOOSE p \in all : \A q \in all \ {p} : Prefers(p, q) :
            all \in {RePaths(t, {<<i>> : i \in f..(Len(t) + 1)}, pat) : <<t, f>> \in {<<s, from>>}}})

\* regex.test(s) of a pattern without the g flag
ReTest(s, pat) == \E t \in {s} : RePaths(t, {<<i>> : i \in 1..(Len(t) + 1)}, pat) # {}

(***************************************************************************)
(* Token classifiers                                                       *)
(***************************************************************************)
DAY_NAMES == <<"Monday", "Tuesday", "Wednesday", "Thursday", "Friday", "Saturday", "Sunday">>
DAY_KEYWORDS == << <<"m","o","n">>, <<"t","u","e">>, <<"w","e","d">>, <<"t","h","u">>, <<"f","r","i">>, <<"s","a","t">>, <<"s","u","n">>,
                   <<"m","o","n","d","a","y">>, <<"t","u","e","s","d","a","y">>, <<"w","e","d","n","e","s","d","a","y">>, <<"t","h","u","r","s","d","a","y">>, <<"f","r","i","d","a","y">>,
                   <<"s","a","t","u","r","d","a","y">>, <<"s","u","n","d","a","y">> >>
DAY_ORDER(d) == (CHOOSE i \in 1..7 : DAY_NAMES[i] = d) - 1

\* the canonical weekday of raw, or "" (null) when no keyword is contained
normalizeDayName(raw) ==
    The({IF hits = {} THEN "" ELSE DAY_NAMES[((MinOf(hits) - 1) % 7) + 1] :
            hits \in {{i \in DOMAIN DAY_KEYWORDS :
                          includes(Strip(trim(toLowerCase(raw)), LowerSet, TRUE),
                                   DAY_KEYWORDS[i])}}})

\* The class [.:-\u2013\u2014] of isLikelyTimeSlot: a full stop, the RANGE from
\* ":" (U+003A) to the en dash (U+2013), and the em dash.  The range holds
\* every ASCII letter; the hyphen (U+002D) and the digits lie below it.
TimeStripClass ==
    {".", ":", ";", "<", "=", ">", "?", "@", "[", "]", "^", "_",
     "{", "|", "}", "~", EnDash, EmDash} \cup LetterSet

isLikelyTimeSlot(text) ==
    \E pat \in {<< <<"rep", DigitSet, 3, 4>>, <<"alt", {<<"-">>}>>, <<"rep", DigitSet, 3, 4>> >>,
                << <<"rep", DigitSet, 1, 2>>, <<"alt", {<<":">>}>>, <<"rep", DigitSet, 2, 2>>,
                   <<"alt", {<<"-">>}>>,
                   <<"rep", DigitSet, 1, 2>>, <<"alt", {<<":">>}>>, <<"rep", DigitSet, 2, 2>> >>,
                << <<"rep", DigitSet, 1, 2>>, <<"alt", {<<".">>}>>, <<"rep", DigitSet, 2, 2>>,
                   <<"alt", {<<"-">>}>>,
                   <<"rep", DigitSet, 1, 2>>, <<"alt", {<<".">>}>>, <<"rep", DigitSet, 2, 2>> >>} :
        ReTest(Strip(Strip(text, SpaceSet, FALSE), TimeStripClass, FALSE), pat)

\* raw.trim().replace(/\s+/g, " ")
CollapseSpaces(s) ==
    Pick([i \in 1..Len(s) |-> IF s[i] \in SpaceSet THEN " " ELSE s[i]],
         {i \in 1..Len(s) : s[i] \notin SpaceSet \/ i = 1 \/ s[i - 1] \notin SpaceSet})

\* to12Hour with the hour padded to two digits ("08:00 AM"): with it the
\* round trip of C2 does not give "8:00 AM"
to12HourPadded(time24) ==
    IF ~includes(time24, <<":">>) THEN time24
    ELSE The({PadStart2(IF hm[1] > 12 THEN hm[1] - 12 ELSE IF hm[1] = 0 THEN 12 ELSE hm[1])
              \o <<":">> \o PadStart2(hm[2]) \o <<" ">>
              \o (IF hm[1] >= 12 THEN <<"P","M">> ELSE <<"A","M">>) :
                 hm \in {[i \in 1..2 |-> ParseInt(Split(time24, ":")[i])]}})

to12Hour(time24) ==
    IF ~includes(time24, <<":">>) THEN time24
    ELSE The({NumToStr(IF hm[1] > 12 THEN hm[1] - 12 ELSE IF hm[1] = 0 THEN 12 ELSE hm[1])
              \o <<":">> \o PadStart2(hm[2]) \o <<" ">>
              \o (IF hm[1] >= 12 THEN <<"P","M">> ELSE <<"A","M">>) :
                 hm \in {[i \in 1..2 |-> ParseInt(Split(time24, ":")[i])]}})

time12ToMinutes(time12) ==
    The({(IF tp[2] = <<"P","M">> /\ hm[1] # 12 THEN hm[1] + 12
          ELSE IF tp[2] = <<"A","M">> /\ hm[1] = 12 THEN 0 ELSE hm[1]) * 60 + hm[2] :
            <<tp, hm>> \in {<<x, [i \in 1..2 |-> ParseInt(Split(x[1], ":")[i])]>> :
                               x \in {Split(time12, " ")}}})

\* The two patterns of normalizeTimeSlot, with the elements that are its
\* capture groups:
\*   (\d{1,2})[:.](\d{2})\s*[-dashes]\s*(\d{1,2})[:.](\d{2})
\*   (\d{2})(\d{2})[-dashes](\d{2})(\d{2})
TimeSlotPatterns ==
    << [pat |-> << <<"rep", DigitSet, 1, 2>>, <<"rep", {":", "."}, 1, 1>>, <<"rep", DigitSet, 2, 2>>,
                   <<"rep", SpaceSet, 0, 99>>, <<"rep", DashSet, 1, 1>>, <<"rep", SpaceSet, 0, 99>>,
                   <<"rep", DigitSet, 1, 2>>, <<"rep", {":", "."}, 1, 1>>, <<"rep", DigitSet, 2, 2>> >>,
        groups |-> <<1, 3, 7, 9>>],
       [pat |-> << <<"rep", DigitSet, 2, 2>>, <<"rep", DigitSet, 2, 2>>, <<"rep", DashSet, 1, 1>>,
                   <<"rep", DigitSet, 2, 2>>, <<"rep", DigitSet, 2, 2>> >>,
        groups |-> <<1, 2, 4, 5>>] >>

NoSlot == [ok |-> FALSE, start12 |-> <<>>, end12 |-> <<>>]

\* one iteration of the pattern loop: null when the pattern does not match
\* or the hours and minutes are out of range (continue).  t is h1, m1, h2, m2
\* after "if (h <= 7) h += 12".
TimeSlotOf(cleaned, p) ==
    The({IF m = <<>> THEN NoSlot
         ELSE The({IF t[1] > 23 \/ t[3] > 23 \/ t[2] > 59 \/ t[4] > 59 THEN NoSlot
                   ELSE [ok |-> TRUE,
                         start12 |-> to12Hour(PadStart2(t[1]) \o <<":">> \o PadStart2(t[2])),
                         end12 |-> to12Hour(PadStart2(t[3]) \o <<":">> \o PadStart2(t[4]))] :
                      t \in {[k \in 1..4 |->
                                 The({IF k \in {1, 3} /\ n <= 7 THEN n + 12 ELSE n :
                                         n \in {ParseInt(SubSeq(cleaned, m[p.groups[k]],
                                                                m[p.groups[k] + 1] - 1))}})]}}) :
            m \in {ReExec(cleaned, p.pat, 1)}})

normalizeTimeSlot(raw) ==
    The({IF \A n \in DOMAIN slots : ~slots[n].ok THEN NoSlot
         ELSE slots[MinOf({n \in DOMAIN slots : slots[n].ok})] :
            slots \in {[n \in DOMAIN TimeSlotPatterns |->
                           TimeSlotOf(CollapseSpaces(trim(raw)), TimeSlotPatterns[n])]}})

\* the second pattern has no i flag: its L and R are upper case, the text is lower case
isLikelyRoom(text) ==
    \E lower \in {trim(toLowerCase(text))} :
        \/ \E k \in {<<"r","o","o","m">>, <<"l","a","b">>, <<"a","u","d","i","t","o","r","i","u","m">>, <<"h","a","l","l">>} : includes(lower, k)
        \/ \E pat \in {<< <<"bol">>, <<"rep", LetterSet, 1, 3>>, <<"rep", SpaceSet, 0, 99>>,
                          <<"alt", {<<>>, <<"-">>}>>, <<"rep", SpaceSet, 0, 99>>,
                          <<"rep", DigitSet, 2, 4>>, <<"eol">> >>,
                       << <<"bol">>, <<"alt", {<<>>, <<"L">>}>>, <<"alt", {<<>>, <<"R">>}>>,
                          <<"alt", {<<>>, <<"-">>}>>, <<"rep", DigitSet, 2, 4>>, <<"eol">> >>} :
               ReTest(lower, pat)

\* m is raw.match(/(\d{2,4})/)
normalizeRoomName(raw) ==
    The({IF includes(lower, <<"a","u","d","i","t","o","r","i","u","m">>) THEN <<"A","u","d","i","t","o","r","i","u","m">>
         ELSE IF includes(lower, <<"m","a","i","n"," ","h","a","l","l">>) THEN <<"M","a","i","n"," ","H","a","l","l">>
         ELSE IF m # <<>> /\ (includes(lower, <<"l","a","b">>) \/ includes(lower, <<"c","o","m","p","u","t","e","r">>))
              THEN <<"L","a","b","-">> \o SubSeq(raw, m[1], m[2] - 1)
         ELSE IF m # <<>> /\ (includes(lower, <<"r","o","o","m">>) \/ includes(lower, <<"l","e","c","t","u","r","e">>))
              THEN <<"R","o","o","m"," ","#">> \o SubSeq(raw, m[1], m[2] - 1)
         ELSE trim(raw) :
            <<lower, m>> \in {<<toLowerCase(trim(raw)),
                               ReExec(raw, << <<"rep", DigitSet, 2, 4>> >>, 1)>>}})

\* the tests of isSkippable after "!lower", in the order of the source
SkipPatterns ==
    {<< <<"alt", {<<"u","s","e","d"," ","i","n">>}>> >>,
     << <<"bol">>, <<"alt", {<<"i","t">>}>>, <<"rep", SpaceSet, 0, 99>>, <<"alt", {<<"d","e","p","a","r","t","m","e","n","t">>}>>, <<"eol">> >>,
     << <<"bol">>, <<"alt", {<<"j","u","m","m","a">>}>>, <<"rep", SpaceSet, 0, 99>>, <<"alt", {<<"p","r","a","y","e","r">>}>>, <<"eol">> >>,
     << <<"bol">>, <<"alt", {<<"r","o","o","m">>}>>, <<"alt", {<<>>, <<"s">>}>>, <<"eol">> >>,
     << <<"bol">>, <<"alt", {<<"g","r","o","u","n","d">>, <<"1","s","t">>, <<"2","n","d">>, <<"3","r","d">>, <<"i","s","t">>, <<"!","s","t">>}>>,
        <<"rep", SpaceSet, 0, 99>>, <<"alt", {<<"f","l","o","o","r">>}>>, <<"eol">> >>,
     << <<"bol">>, <<"alt", {<<"d","e","p","a","r","t","m","e","n","t">>, <<"s","e","m","e","s","t","e","r">>}>> >>,
     << <<"bol">>, <<"alt", {<<"t","i","m","e">>}>>, <<"rep", SpaceSet, 0, 99>>, <<"alt", {<<"t","a","b","l","e">>}>> >>,
     << <<"bol">>, <<"alt", {<<"t","i","m","e","t","a","b","l","e">>, <<"s","c","h","e","d","u","l","e">>, <<"u","p","d","a","t","e","d">>, <<"e","f","f","e","c","t","i","v","e">>, <<"n","o","t","e",":">>}>> >>,
     << <<"bol">>, <<"alt", {<<"p","a","g","e">>}>>, <<"rep", SpaceSet, 0, 99>>, <<"rep", DigitSet, 1, 1>> >>,
     << <<"bol">>, <<"alt", {<<"s">>}>>, <<"alt", {<<>>, <<".">>}>>, <<"rep", SpaceSet, 0, 99>>,
        <<"alt", {<<"n","o">>}>>, <<"alt", {<<>>, <<".">>}>>, <<"eol">> >>,
     << <<"bol">>, <<"alt", {<<"s","r">>}>>, <<"alt", {<<>>, <<".">>}>>, <<"rep", SpaceSet, 0, 99>>,
        <<"alt", {<<>>, <<"#">>}>>, <<"eol">> >>,
     << <<"bol">>, <<"alt", {<<"t","o","t","a","l">>}>> >>,
     << <<"alt", {<<"b","r","e","a","k">>, <<"l","u","n","c","h">>, <<"r","e","c","e","s","s">>, <<"p","r","a","y","e","r">>, <<"f","r","e","e">>, <<"o","f","f">>}>> >>,
     << <<"bol">>, <<"alt", {<<"-">>}>>, <<"eol">> >>}

isSkippable(text) ==
    \E lower \in {trim(toLowerCase(text))} :
        lower = <<>> \/ \E pat \in SkipPatterns : ReTest(lower, pat)

\* /^(Mr\.?|Ms\.?|Mrs\.?|Dr\.?|Prof\.?|Engr\.?|Sir|Madam)/i
IsTeacherLine(text) ==
    ReTest(toLowerCase(text),
           << <<"bol">>, <<"alt", {<<"m","r">>, <<"m","s">>, <<"m","r","s">>, <<"d","r">>, <<"p","r","o","f">>, <<"e","n","g","r">>, <<"s","i","r">>, <<"m","a","d","a","m">>}>> >>)

(***************************************************************************)
(* The two module-level patterns.  Both carry the flags g and i: test()    *)
(* starts at lastIndex and leaves lastIndex at the end of the match (0     *)
(* after a failure); matchAll starts at the pattern's lastIndex and leaves *)
(* it alone; replace starts at 0 and leaves 0.  lastIndex is a 0-based     *)
(* offset; positions here are 1-based.                                     *)
(***************************************************************************)
\* /\b(BS[A-Z]{2,4}-\d{1,2}[A-Za-z]?)(?:Combined)?\b/gi: group 1 is elements 2 to 6
SECTION_PATTERN ==
    << <<"wb">>, <<"alt", {<<"b","s">>}>>, <<"rep", LowerSet, 2, 4>>, <<"alt", {<<"-">>}>>,
       <<"rep", DigitSet, 1, 2>>, <<"rep", LowerSet, 0, 1>>,
       <<"alt", {<<>>, <<"c","o","m","b","i","n","e","d">>}>>, <<"wb">> >>
\* /BS[A-Z]{2,4}-\d+[A-Z]?\s*\/\s*BS[A-Z]{2,4}-\d+[A-Z]?/gi
COMBINED_SECTION_PATTERN ==
    << <<"alt", {<<"b","s">>}>>, <<"rep", LowerSet, 2, 4>>, <<"alt", {<<"-">>}>>,
       <<"rep", DigitSet, 1, 99>>, <<"rep", LowerSet, 0, 1>>,
       <<"rep", SpaceSet, 0, 99>>, <<"alt", {<<"/">>}>>, <<"rep", SpaceSet, 0, 99>>,
       <<"alt", {<<"b","s">>}>>, <<"rep", LowerSet, 2, 4>>, <<"alt", {<<"-">>}>>,
       <<"rep", DigitSet, 1, 99>>, <<"rep", LowerSet, 0, 1>> >>

\* pattern.test(s) with the pattern's lastIndex at lastIndex: found, and the
\* lastIndex the call leaves
test(s, pat, lastIndex) ==
    The({[found |-> m # <<>>, lastIndex |-> IF m = <<>> THEN 0 ELSE m[Len(m)] - 1] :
            m \in {ReExec(toLowerCase(s), pat, lastIndex + 1)}})

\* s.replace(pattern, "") from position from on: every match removed
RECURSIVE replace(_, _, _)
replace(s, pat, from) ==
    The({IF m = <<>> THEN SubSeq(s, from, Len(s))
         ELSE SubSeq(s, from, m[1] - 1) \o replace(s, pat, m[Len(m)]) :
            m \in {ReExec(toLowerCase(s), pat, from)}})

\* [...new Set(seq)]: the first occurrence of each element, in order
RECURSIVE Distinct(_)
Distinct(seq) ==
    IF seq = <<>> THEN <<>>
    ELSE LET init == Distinct(SubSeq(seq, 1, Len(seq) - 1))
         IN  IF \E i \in 1..Len(init) : init[i] = seq[Len(seq)] THEN init
             ELSE Append(init, seq[Len(seq)])

\* [...text.matchAll(SECTION_PATTERN)].map(m => m[1].toUpperCase()), the
\* matcher starting at the pattern's lastIndex
RECURSIVE MatchAllSections(_, _)
MatchAllSections(text, lastIndex) ==
    The({IF m = <<>> THEN <<>>
         ELSE <<toUpperCase(SubSeq(text, m[1], m[7] - 1))>> \o MatchAllSections(text, m[9] - 1) :
            m \in {ReExec(toLowerCase(text), SECTION_PATTERN, lastIndex + 1)}})

\* re is the state of the two module-level patterns:
\* [s |-> SECTION_PATTERN.lastIndex, c |-> COMBINED_SECTION_PATTERN.lastIndex]
extractAllSections(text, re) == Distinct(MatchAllSections(text, re.s))

\* s.replace(/^\s*\/\s*|\s*\/\s*$/g, ""): the first alternative can match at
\* the start only, the second at the end only
StripSlashes(s) ==
    replace(replace(s, << <<"bol">>, <<"rep", SpaceSet, 0, 99>>, <<"alt", {<<"/">>}>>,
                          <<"rep", SpaceSet, 0, 99>> >>, 1),
            << <<"rep", SpaceSet, 0, 99>>, <<"alt", {<<"/">>}>>, <<"rep", SpaceSet, 0, 99>>,
               <<"eol">> >>, 1)

\* cellText.split(/[\r\n]+/).map(l => l.trim()).filter(Boolean)
RECURSIVE SplitLines(_)
SplitLines(s) ==
    IF s = <<>> THEN <<>>
    ELSE The({(IF trim(SubSeq(s, 1, n - 1)) = <<>> THEN <<>> ELSE <<trim(SubSeq(s, 1, n - 1))>>)
              \o SplitLines(SubSeq(s, n + 1, Len(s))) :
                 n \in {MinOf({i \in 1..(Len(s) + 1) : i > Len(s) \/ s[i] \in {"\n", "\r"}})}})

(***************************************************************************)
(* The sheet and the Cell Resolver                                         *)
(* A sheet is [name, hasRef, s, e, cells, merges]: s and e are the corners *)
(* of the decoded "!ref" range, cells is a function from <<r, c>> to the   *)
(* cell's text, merges a sequence of [s, e] regions.                       *)
(***************************************************************************)
\* MergeOrigin with an empty mergeMap: every address resolves to itself,
\* and C15 does not hold
MergeOriginNone(sh, r, c) == <<r, c>>

\* the mergeMap entry of (r, c): the origin of the last listed region that
\* holds (r, c) as a non-origin cell (Map.set overwrites), else (r, c)
MergeOrigin(sh, r, c) ==
    The({IF hits = {} THEN <<r, c>>
         ELSE sh.merges[CHOOSE x \in hits : \A y \in hits : x >= y].s :
            hits \in {{n \in 1..Len(sh.merges) :
                          /\ sh.merges[n].s[1] <= r /\ r <= sh.merges[n].e[1]
                          /\ sh.merges[n].s[2] <= c /\ c <= sh.merges[n].e[2]
                          /\ (r # sh.merges[n].s[1] \/ c # sh.merges[n].s[2])}}})

getMergedCellValue(sh, r, c) ==
    The({IF o \in DOMAIN sh.cells THEN trim(sh.cells[o]) ELSE <<>> :
            o \in {MergeOrigin(sh, r, c)}})

(***************************************************************************)
(* parseCell                                                               *)
(***************************************************************************)
\* One iteration of the loop over the cell's lines.  st is [subject,
\* teacher, re]; "" is the empty text <<>>.  t1 and t2 are the two test()
\* calls; the replace calls of the subject branch leave both lastIndex at 0.
ParseLine(st, line) ==
    LET trimmed == trim(line)
    IN  IF isSkippable(trimmed) THEN st
        ELSE The({
            IF t1.found THEN [st EXCEPT !.re = [s |-> t1.lastIndex, c |-> st.re.c]]
            ELSE IF t2.found \/ isLikelyTimeSlot(trimmed)
                 THEN [st EXCEPT !.re = [s |-> t1.lastIndex, c |-> t2.lastIndex]]
            ELSE IF IsTeacherLine(trimmed)
                 THEN [st EXCEPT !.re = [s |-> t1.lastIndex, c |-> t2.lastIndex],
                                 !.teacher = IF st.teacher = <<>> THEN trimmed ELSE st.teacher]
            ELSE IF st.subject = <<>>
                 THEN [st EXCEPT !.re = [s |-> 0, c |-> 0],
                                 !.subject = The({IF Len(cleaned) > 1 THEN cleaned ELSE <<>> :
                                     cleaned \in {trim(StripSlashes(
                                         replace(replace(trimmed, COMBINED_SECTION_PATTERN, 1),
                                                 SECTION_PATTERN, 1)))}})]
            ELSE [st EXCEPT !.re = [s |-> t1.lastIndex, c |-> t2.lastIndex]] :
                <<t1, t2>> \in {<<test(trimmed, SECTION_PATTERN, st.re.s),
                                  test(trimmed, COMBINED_SECTION_PATTERN, st.re.c)>>}})

RECURSIVE ParseLines(_, _)
ParseLines(st, lines) ==
    IF lines = <<>> THEN st
    ELSE The({ParseLines(next, Tail(lines)) : next \in {ParseLine(st, Head(lines))}})

\* SubjectFallback trying the neighbour above before the left one; C18 does
\* not hold with it
SubjectFallbackAboveFirst(sh, row, col) ==
    The({IF usable = {} THEN [subject |-> <<"U","n","k","n","o","w","n"," ","S","u","b","j","e","c","t">>, penalty |-> 500]
         ELSE [subject |-> trim(near[MinOf(usable)]), penalty |-> 250] :
            <<near, usable>> \in
                {<<n, {i \in 1..2 : /\ n[i] # <<>> /\ ~isLikelyRoom(n[i])
                                    /\ ~isLikelyTimeSlot(n[i]) /\ ~isSkippable(n[i])}>> :
                    n \in {<<getMergedCellValue(sh, row - 1, col),
                             getMergedCellValue(sh, row, col - 1)>>}}})

\* if (!subject): the left neighbour, else the one above, else the default
SubjectFallback(sh, row, col) ==
    The({IF usable = {} THEN [subject |-> <<"U","n","k","n","o","w","n"," ","S","u","b","j","e","c","t">>, penalty |-> 500]
         ELSE [subject |-> trim(near[MinOf(usable)]), penalty |-> 250] :
            <<near, usable>> \in
                {<<n, {i \in 1..2 : /\ n[i] # <<>> /\ ~isLikelyRoom(n[i])
                                    /\ ~isLikelyTimeSlot(n[i]) /\ ~isSkippable(n[i])}>> :
                    n \in {<<getMergedCellValue(sh, row, col - 1),
                             getMergedCellValue(sh, row - 1, col)>>}}})

\* TeacherFallback with the default's penalty at 0.6 in place of 0.5: with
\* it a cell without subject and teacher falls below 0 and C1 does not hold
TeacherFallbackHeavy(sh, row, col) ==
    The({IF usable = {} THEN [teacher |-> <<"U","n","k","n","o","w","n"," ","T","e","a","c","h","e","r">>, penalty |-> 600]
         ELSE [teacher |-> trim(near[MinOf(usable)]), penalty |-> 200] :
            <<near, usable>> \in
                {<<n, {i \in 1..2 : n[i] # <<>> /\ IsTeacherLine(n[i])}>> :
                    n \in {<<getMergedCellValue(sh, row, col + 1),
                             getMergedCellValue(sh, row + 1, col)>>}}})

\* if (!teacher): the right neighbour, else the one below, else the default
TeacherFallback(sh, row, col) ==
    The({IF usable = {} THEN [teacher |-> <<"U","n","k","n","o","w","n"," ","T","e","a","c","h","e","r">>, penalty |-> 500]
         ELSE [teacher |-> trim(near[MinOf(usable)]), penalty |-> 200] :
            <<near, usable>> \in
                {<<n, {i \in 1..2 : n[i] # <<>> /\ IsTeacherLine(n[i])}>> :
                    n \in {<<getMergedCellValue(sh, row, col + 1),
                             getMergedCellValue(sh, row + 1, col)>>}}})

\* [subject, teacher, sections, confidence, re]: re is the state the two
\* patterns are left in
parseCell(cellText, sh, row, col, re) ==
    The({[subject |-> IF st.subject = <<>> THEN sf.subject ELSE st.subject,
          teacher |-> IF st.teacher = <<>> THEN tf.teacher ELSE st.teacher,
          sections |-> extractAllSections(cellText, re),
          confidence |-> 1000 - (IF st.subject = <<>> THEN sf.penalty ELSE 0)
                              - (IF st.teacher = <<>> THEN tf.penalty ELSE 0),
          re |-> st.re] :
            <<st, sf, tf>> \in
                {<<ParseLines([subject |-> <<>>, teacher |-> <<>>, re |-> re], SplitLines(cellText)),
                   SubjectFallback(sh, row, col), TeacherFallback(sh, row, col)>>}})

(***************************************************************************)
(* Lecture entries                                                         *)
(***************************************************************************)
\* `${start} \u2013 ${end}` with an en dash
TimeLabel(start12, end12) == start12 \o <<" ", EnDash, " ">> \o end12

Entry(day, start12, end12, subject, teacher, room, section, confidence) ==
    [day |-> day, time |-> TimeLabel(start12, end12), startTime |-> start12,
     endTime |-> end12, subject |-> subject, teacher |-> teacher, room |-> room,
     section |-> section, confidence |-> confidence]

\* sameClass without the comparison of the rooms: with it two classes in
\* different rooms merge and C4 does not hold
sameClassAnyRoom(current, next) ==
    /\ current.section = next.section
    /\ current.day = next.day
    /\ current.subject = next.subject
    /\ current.teacher = next.teacher

sameClass(current, next) ==
    /\ current.section = next.section
    /\ current.day = next.day
    /\ current.subject = next.subject
    /\ current.teacher = next.teacher
    /\ current.room = next.room

consecutive(current, next) ==
    time12ToMinutes(current.endTime) = time12ToMinutes(next.startTime)

\* MergeLoop keeping the running entry's confidence when it merges (no
\* Math.min): a merged entry can then carry more than the least of its
\* parts, and C17 does not hold
RECURSIVE MergeLoopKeepFirst(_, _, _)
MergeLoopKeepFirst(entries, i, current) ==
    IF i > Len(entries) THEN <<current>>
    ELSE IF sameClass(current, entries[i]) /\ consecutive(current, entries[i])
         THEN MergeLoopKeepFirst(entries, i + 1,
                        [current EXCEPT !.endTime = entries[i].endTime,
                                        !.time = TimeLabel(current.startTime, entries[i].endTime)])
         ELSE <<current>> \o MergeLoopKeepFirst(entries, i + 1, entries[i])

\* the loop of mergeConsecutiveClasses from index i on, current being the running entry
RECURSIVE MergeLoop(_, _, _)
MergeLoop(entries, i, current) ==
    IF i > Len(entries) THEN <<current>>
    ELSE IF sameClass(current, entries[i]) /\ consecutive(current, entries[i])
         THEN MergeLoop(entries, i + 1,
                        [current EXCEPT !.endTime = entries[i].endTime,
                                        !.time = TimeLabel(current.startTime, entries[i].endTime),
                                        !.confidence = Min(current.confidence, entries[i].confidence)])
         ELSE <<current>> \o MergeLoop(entries, i + 1, entries[i])

mergeConsecutiveClasses(entries) ==
    IF Len(entries) <= 1 THEN entries ELSE MergeLoop(entries, 2, entries[1])

(***************************************************************************)
(* Layout strategies.  Each works on an accumulator acc = [entries,        *)
(* origins, re] and returns [result, re]: result is the Parse Result       *)
(* [entries, strategyName, avgConfidence, origins] and re the state the    *)
(* module-level patterns are left in.  avgConfidence is the fraction       *)
(* [num, den] = totalConf / count ([0, 1] when count is 0).  origins is    *)
(* not in the code: origins[i] is the cell <<r, c>> entries[i] was pushed  *)
(* for.                                                                    *)
(***************************************************************************)
RECURSIVE SumConf(_)
SumConf(entries) ==
    IF entries = <<>> THEN 0 ELSE Head(entries).confidence + SumConf(Tail(entries))

\* the return statement of a strategy
ParseResult(acc, name) ==
    [result |-> [entries |-> acc.entries, strategyName |-> name, origins |-> acc.origins,
                 avgConfidence |-> IF Len(acc.entries) > 0
                                   THEN [num |-> SumConf(acc.entries), den |-> Len(acc.entries)]
                                   ELSE [num |-> 0, den |-> 1]],
     re |-> acc.re]

\* "for (const sec of sections) entries.push(..)" for the lecture cell at
\* cell, after the parseCell call that returned pr
Emit(acc, cell, pr, sections, day, slot, room, confidence) ==
    [entries |-> acc.entries \o [i \in 1..Len(sections) |->
                     Entry(day, slot.start12, slot.end12, pr.subject, pr.teacher, room,
                           sections[i], confidence)],
     origins |-> acc.origins \o [i \in 1..Len(sections) |-> cell],
     re |-> pr.re]

\* "if (val && isLikelyTimeSlot(val)) norm = normalizeTimeSlot(val)": the
\* slot a cell states, NoSlot when it states none
SlotOf(val) ==
    IF val # <<>> /\ isLikelyTimeSlot(val) THEN normalizeTimeSlot(val) ELSE NoSlot

\* the time slots a row asserts, in column order
RECURSIVE RowTimes(_, _, _)
RowTimes(sh, r, c) ==
    IF c > sh.e[2] THEN <<>>
    ELSE The({IF norm.ok
              THEN <<[col |-> c, raw |-> getMergedCellValue(sh, r, c),
                      start12 |-> norm.start12, end12 |-> norm.end12]>>
              ELSE <<>> : norm \in {SlotOf(getMergedCellValue(sh, r, c))}})
         \o RowTimes(sh, r, c + 1)

\* for (const ts of currentTimeSlots) of a data row r
RECURSIVE RoomRowCells(_, _, _, _, _, _)
RoomRowCells(sh, r, day, room, slots, acc) ==
    IF slots = <<>> THEN acc
    ELSE The({RoomRowCells(sh, r, day, room, Tail(slots), next) :
                 next \in {IF cellVal = <<>> \/ isSkippable(cellVal) THEN acc
                           ELSE The({Emit(acc, <<r, Head(slots).col>>, pr, pr.sections, day,
                                          Head(slots), room, pr.confidence) :
                                        pr \in {parseCell(cellVal, sh, r, Head(slots).col, acc.re)}}) :
                              cellVal \in {getMergedCellValue(sh, r, Head(slots).col)}}})

\* RoomRowStep without the check of currentDay at line 431: rows above the
\* first day marker emit entries, and C20 does not hold
RoomRowStepNoDayGate(sh, r, st) ==
    The({IF Len(rowTimes) >= 2
         THEN [st EXCEPT !.currentDay = currentDay, !.currentTimeSlots = rowTimes]
         ELSE IF st.currentTimeSlots = <<>> \/ room = <<>>
         THEN [st EXCEPT !.currentDay = currentDay]
         ELSE The({[st EXCEPT !.currentDay = currentDay, !.entries = acc.entries,
                              !.origins = acc.origins, !.re = acc.re] :
                      acc \in {RoomRowCells(sh, r, currentDay, room, st.currentTimeSlots,
                                   [entries |-> st.entries, origins |-> st.origins,
                                    re |-> st.re])}}) :
            <<currentDay, rowTimes, room>> \in
                {<<The({IF days = {} THEN st.currentDay
                        ELSE normalizeDayName(getMergedCellValue(sh, r, MinOf(days))) :
                           days \in {{c \in 0..Min(3, sh.e[2]) :
                                         normalizeDayName(getMergedCellValue(sh, r, c)) # ""}}}),
                   RowTimes(sh, r, 0),
                   The({IF rooms = {} THEN <<>>
                        ELSE normalizeRoomName(getMergedCellValue(sh, r, MinOf(rooms))) :
                           rooms \in {{c \in 0..Min(3, sh.e[2]) :
                                          /\ getMergedCellValue(sh, r, c) # <<>>
                                          /\ isLikelyRoom(getMergedCellValue(sh, r, c))}}})>>}})

\* RoomRowStep without "if (!room) continue" at line 441: a row that holds
\* no room emits entries with an empty room, and C21 does not hold
RoomRowStepNoRoomGate(sh, r, st) ==
    The({IF Len(rowTimes) >= 2
         THEN [st EXCEPT !.currentDay = currentDay, !.currentTimeSlots = rowTimes]
         ELSE IF currentDay = "" \/ st.currentTimeSlots = <<>>
         THEN [st EXCEPT !.currentDay = currentDay]
         ELSE The({[st EXCEPT !.currentDay = currentDay, !.entries = acc.entries,
                              !.origins = acc.origins, !.re = acc.re] :
                      acc \in {RoomRowCells(sh, r, currentDay, room, st.currentTimeSlots,
                                   [entries |-> st.entries, origins |-> st.origins,
                                    re |-> st.re])}}) :
            <<currentDay, rowTimes, room>> \in
                {<<The({IF days = {} THEN st.currentDay
                        ELSE normalizeDayName(getMergedCellValue(sh, r, MinOf(days))) :
                           days \in {{c \in 0..Min(3, sh.e[2]) :
                                         normalizeDayName(getMergedCellValue(sh, r, c)) # ""}}}),
                   RowTimes(sh, r, 0),
                   The({IF rooms = {} THEN <<>>
                        ELSE normalizeRoomName(getMergedCellValue(sh, r, MinOf(rooms))) :
                           rooms \in {{c \in 0..Min(3, sh.e[2]) :
                                          /\ getMergedCellValue(sh, r, c) # <<>>
                                          /\ isLikelyRoom(getMergedCellValue(sh, r, c))}}})>>}})

\* One iteration of the row loop of parseRoomRowLayout.  st is [currentDay,
\* currentTimeSlots, entries, origins, re]; days and rooms are the columns
\* of the first four that hold a day and a room.
RoomRowStep(sh, r, st) ==
    The({IF Len(rowTimes) >= 2
         THEN [st EXCEPT !.currentDay = currentDay, !.currentTimeSlots = rowTimes]
         ELSE IF currentDay = "" \/ st.currentTimeSlots = <<>> \/ room = <<>>
         THEN [st EXCEPT !.currentDay = currentDay]
         ELSE The({[st EXCEPT !.currentDay = currentDay, !.entries = acc.entries,
                              !.origins = acc.origins, !.re = acc.re] :
                      acc \in {RoomRowCells(sh, r, currentDay, room, st.currentTimeSlots,
                                   [entries |-> st.entries, origins |-> st.origins,
                                    re |-> st.re])}}) :
            <<currentDay, rowTimes, room>> \in
                {<<The({IF days = {} THEN st.currentDay
                        ELSE normalizeDayName(getMergedCellValue(sh, r, MinOf(days))) :
                           days \in {{c \in 0..Min(3, sh.e[2]) :
                                         normalizeDayName(getMergedCellValue(sh, r, c)) # ""}}}),
                   RowTimes(sh, r, 0),
                   The({IF rooms = {} THEN <<>>
                        ELSE normalizeRoomName(getMergedCellValue(sh, r, MinOf(rooms))) :
                           rooms \in {{c \in 0..Min(3, sh.e[2]) :
                                          /\ getMergedCellValue(sh, r, c) # <<>>
                                          /\ isLikelyRoom(getMergedCellValue(sh, r, c))}}})>>}})

RECURSIVE RoomRowLoop(_, _, _)
RoomRowLoop(sh, r, st) ==
    IF r > sh.e[1] THEN st
    ELSE The({RoomRowLoop(sh, r + 1, next) : next \in {RoomRowStep(sh, r, st)}})

parseRoomRowLayout(sh, re) ==
    ParseResult(RoomRowLoop(sh, sh.s[1],
                            [currentDay |-> "", currentTimeSlots |-> <<>>,
                             entries |-> <<>>, origins |-> <<>>, re |-> re]),
                "room-row")

\* The keys one cell text sets in headerColumns
HeaderKeys(val) ==
    {k \in {"section", "subject", "teacher", "day", "time", "floor", "room"} :
        \/ k = "section" /\ includes(val, <<"s","e","c","t","i","o","n">>)
        \/ k = "subject" /\ (includes(val, <<"c","o","u","r","s","e">>) \/ includes(val, <<"s","u","b","j","e","c","t">>))
        \/ k = "teacher" /\ includes(val, <<"t","e","a","c","h","e","r">>)
        \/ k = "day" /\ includes(val, <<"d","a","y">>)
        \/ k = "time" /\ (includes(val, <<"t","i","m","e">>) \/ includes(val, <<"s","l","o","t">>))
        \/ k = "floor" /\ includes(val, <<"f","l","o","o","r">>)
        \/ k = "room" /\ includes(val, <<"r","o","o","m">>)}

\* The header scan of parseColumnBasedDays from cell (r, c) on, row by row.
\* hc is headerColumns, a function from the keys found so far to their
\* column; it is declared outside the row loop and is never reset.
RECURSIVE HeaderScan(_, _, _, _)
HeaderScan(sh, r, c, hc) ==
    IF r > Min(sh.s[1] + 15, sh.e[1]) THEN [headerRow |-> -1, headerColumns |-> hc]
    ELSE IF c > sh.e[2] THEN HeaderScan(sh, r + 1, sh.s[2], hc)
    ELSE The({IF Cardinality(DOMAIN hc \cup keys) >= 4
              THEN [headerRow |-> r,
                    headerColumns |-> [k \in DOMAIN hc \cup keys |-> IF k \in keys THEN c ELSE hc[k]]]
              ELSE HeaderScan(sh, r, c + 1,
                              [k \in DOMAIN hc \cup keys |-> IF k \in keys THEN c ELSE hc[k]]) :
                 keys \in {HeaderKeys(trim(toLowerCase(getMergedCellValue(sh, r, c))))}})

\* headerColumns.key || 0
ColumnOf(hc, key) == IF key \in DOMAIN hc THEN hc[key] ELSE 0

\* One data row of parseColumnBasedDays: v holds the seven cells read
ColumnRow(sh, hc, r, acc) ==
    The({IF \/ v.section = <<>> \/ v.subject = <<>> \/ v.teacher = <<>> \/ day = ""
            \/ v.time = <<>> \/ ~norm.ok
         THEN acc
         ELSE [acc EXCEPT
                 !.entries = Append(@, Entry(day, norm.start12, norm.end12, v.subject, v.teacher,
                                 (IF v.floor # <<>> THEN v.floor \o <<" ">> ELSE <<>>)
                                 \o (IF v.room # <<>> THEN <<"R","o","o","m"," ">> \o v.room
                                     ELSE <<"U","n","k","n","o","w","n"," ","R","o","o","m">>),
                                 v.section,
                                 IF v.room = <<>> THEN 1000 - 300 ELSE 1000)),
                 !.origins = Append(@, <<r, ColumnOf(hc, "section")>>)] :
            <<v, day, norm>> \in
                {<<x, normalizeDayName(x.day), normalizeTimeSlot(x.time)>> :
                    x \in {[k \in {"section", "subject", "teacher", "day", "time", "floor", "room"}
                               |-> getMergedCellValue(sh, r, ColumnOf(hc, k))]}}})

RECURSIVE ColumnRows(_, _, _, _)
ColumnRows(sh, hc, r, acc) ==
    IF r > sh.e[1] THEN acc
    ELSE The({ColumnRows(sh, hc, r + 1, next) : next \in {ColumnRow(sh, hc, r, acc)}})

parseColumnBasedDays(sh, re) ==
    The({ParseResult(IF h.headerRow = -1 THEN [entries |-> <<>>, origins |-> <<>>, re |-> re]
                     ELSE ColumnRows(sh, h.headerColumns, h.headerRow + 1,
                                     [entries |-> <<>>, origins |-> <<>>, re |-> re]),
                     "column-based") :
            h \in {HeaderScan(sh, sh.s[1], sh.s[2], <<>>)}})

\* the day columns of row r, in column order
RECURSIVE DayColumns(_, _, _)
DayColumns(sh, r, c) ==
    IF c > sh.e[2] THEN <<>>
    ELSE The({IF day # "" THEN <<[col |-> c, day |-> day]>> ELSE <<>> :
                 day \in {normalizeDayName(getMergedCellValue(sh, r, c))}})
         \o DayColumns(sh, r, c + 1)

\* for (const dc of dayColumns) of a time row r; room is
\* normalizeRoomName(cellVal) || "Unknown Room"
RECURSIVE PerSheetCells(_, _, _, _, _, _)
PerSheetCells(sh, r, norm, sheetSections, dayColumns, acc) ==
    IF dayColumns = <<>> THEN acc
    ELSE The({PerSheetCells(sh, r, norm, sheetSections, Tail(dayColumns), next) :
             next \in
                 {IF cellVal = <<>> \/ isSkippable(cellVal) THEN acc
                  ELSE The({Emit(acc, <<r, Head(dayColumns).col>>, pr,
                                 IF Len(pr.sections) > 0 THEN pr.sections ELSE sheetSections,
                                 Head(dayColumns).day, norm, room,
                                 (pr.confidence * (IF room # <<"U","n","k","n","o","w","n"," ","R","o","o","m">> THEN 1000 ELSE 500))
                                     \div 1000) :
                               <<pr, room>> \in
                                   {<<parseCell(cellVal, sh, r, Head(dayColumns).col, acc.re),
                                      The({IF rn # <<>> THEN rn ELSE <<"U","n","k","n","o","w","n"," ","R","o","o","m">> :
                                              rn \in {normalizeRoomName(cellVal)}})>>}}) :
                     cellVal \in {getMergedCellValue(sh, r, Head(dayColumns).col)}}})

RECURSIVE PerSheetRows(_, _, _, _, _, _)
PerSheetRows(sh, r, timeCol, sheetSections, dayColumns, acc) ==
    IF r > sh.e[1] THEN acc
    ELSE The({PerSheetRows(sh, r + 1, timeCol, sheetSections, dayColumns, next) :
             next \in {IF ~norm.ok THEN acc
                       ELSE PerSheetCells(sh, r, norm, sheetSections, dayColumns, acc) :
                          norm \in {SlotOf(getMergedCellValue(sh, r, timeCol))}}})

\* headerRows: the rows of the first 11 with at least 3 day columns, the
\* first being the header; timeCols: the columns left of the first day
\* column with at least 2 time slots below the header
parsePerSheetSections(sh, sheetName, re) ==
    IF Len(extractAllSections(sheetName, re)) = 0
    THEN ParseResult([entries |-> <<>>, origins |-> <<>>, re |-> re], "per-sheet")
    ELSE The({
        IF headerRows = {}
        THEN ParseResult([entries |-> <<>>, origins |-> <<>>, re |-> re], "per-sheet")
        ELSE The({
            IF timeCols = {}
            THEN ParseResult([entries |-> <<>>, origins |-> <<>>, re |-> re], "per-sheet")
            ELSE ParseResult(PerSheetRows(sh, MinOf(headerRows) + 1, MinOf(timeCols),
                                          extractAllSections(sheetName, re), dayColumns,
                                          [entries |-> <<>>, origins |-> <<>>, re |-> re]),
                             "per-sheet") :
                <<dayColumns, timeCols>> \in
                    {<<d, {c \in sh.s[2]..(d[1].col - 1) :
                              Cardinality({r \in (MinOf(headerRows) + 1)..sh.e[1] :
                                  /\ getMergedCellValue(sh, r, c) # <<>>
                                  /\ isLikelyTimeSlot(getMergedCellValue(sh, r, c))}) >= 2}>> :
                        d \in {DayColumns(sh, MinOf(headerRows), sh.s[2])}}}) :
            headerRows \in {{r \in sh.s[1]..Min(sh.s[1] + 10, sh.e[1]) :
                                Len(DayColumns(sh, r, sh.s[2])) >= 3}}})

(***************************************************************************)
(* Brute-force proximity                                                   *)
(***************************************************************************)
\* The classification of the cell (r, c) holding val.  m is [dayCells,
\* timeCells, roomCells, dataCells]; matchAll reads the pattern's lastIndex
\* re.s and leaves it alone.
BruteClassify(m, r, c, val, re) ==
    IF val = <<>> \/ isSkippable(val) THEN m
    ELSE The({
        IF day # "" THEN [m EXCEPT !.dayCells = Append(@, [r |-> r, c |-> c, day |-> day])]
        ELSE IF isLikelyTimeSlot(val)
             THEN The({IF norm.ok
                       THEN [m EXCEPT !.timeCells = Append(@, [r |-> r, c |-> c,
                                          start12 |-> norm.start12, end12 |-> norm.end12])]
                       ELSE m : norm \in {normalizeTimeSlot(val)}})
        ELSE IF isLikelyRoom(val)
             THEN [m EXCEPT !.roomCells = Append(@, [r |-> r, c |-> c,
                                                     room |-> normalizeRoomName(val)])]
        ELSE IF Len(extractAllSections(val, re)) > 0
             THEN [m EXCEPT !.dataCells = Append(@, [r |-> r, c |-> c, text |-> val])]
        ELSE m : day \in {normalizeDayName(val)}})

RECURSIVE BruteScan(_, _, _, _, _)
BruteScan(sh, r, c, re, m) ==
    IF r > sh.e[1] THEN m
    ELSE IF c > sh.e[2] THEN BruteScan(sh, r + 1, sh.s[2], re, m)
    ELSE The({BruteScan(sh, r, c + 1, re, next) :
                 next \in {BruteClassify(m, r, c, getMergedCellValue(sh, r, c), re)}})

\* Math.abs(m.r - dc.r) * w + Math.abs(m.c - dc.c)
Dist(m, dc, w) ==
    (IF m.r < dc.r THEN dc.r - m.r ELSE m.r - dc.r) * w
    + (IF m.c < dc.c THEN dc.c - m.c ELSE m.c - dc.c)

\* Nearest without the distance test: the first eligible cell in scan order
\* is kept, and C25 does not hold
NearestFirst(cells, ok, dc, w, none) ==
    IF ok = {} THEN none ELSE cells[MinOf(ok)]

\* What a "dist < best" loop over cells keeps: the first of the eligible
\* cells (those at the indices ok) at the least distance; none when no cell
\* is eligible
Nearest(cells, ok, dc, w, none) ==
    IF ok = {} THEN none
    ELSE cells[MinOf({i \in ok : \A j \in ok : Dist(cells[i], dc, w) <= Dist(cells[j], dc, w)})]

\* for (const dc of dataCells); best is the nearest day, time and room cell
RECURSIVE BruteCells(_, _, _, _)
BruteCells(sh, m, dataCells, acc) ==
    IF dataCells = <<>> THEN acc
    ELSE The({BruteCells(sh, m, Tail(dataCells), next) :
             next \in {IF Len(pr.sections) = 0 \/ best[1].day = "" \/ best[2].start12 = <<>>
                  THEN [acc EXCEPT !.re = pr.re]
                  ELSE Emit(acc, <<Head(dataCells).r, Head(dataCells).c>>, pr, pr.sections,
                            best[1].day, best[2],
                            IF best[3].room = <<>> THEN <<"U","n","k","n","o","w","n"," ","R","o","o","m">> ELSE best[3].room,
                            (pr.confidence * (IF best[3].room = <<>> THEN 1000 - 500 ELSE 1000))
                                \div 1000) :
                     <<pr, best>> \in
                         {<<parseCell(Head(dataCells).text, sh, Head(dataCells).r,
                                      Head(dataCells).c, acc.re),
                            <<Nearest(m.dayCells,
                                      {i \in DOMAIN m.dayCells : m.dayCells[i].r <= Head(dataCells).r},
                                      Head(dataCells), 10, [day |-> ""]),
                              Nearest(m.timeCells, DOMAIN m.timeCells, Head(dataCells), 5, NoSlot),
                              Nearest(m.roomCells, DOMAIN m.roomCells, Head(dataCells), 10,
                                      [room |-> <<>>])>>>>}}})

parseBruteForce(sh, re) ==
    The({ParseResult(BruteCells(sh, m, m.dataCells, [entries |-> <<>>, origins |-> <<>>, re |-> re]),
                     "brute-force") :
            m \in {BruteScan(sh, sh.s[1], sh.s[2], re,
                             [dayCells |-> <<>>, timeCells |-> <<>>, roomCells |-> <<>>,
                              dataCells |-> <<>>])}})

\* the four pushes of one sheet, in the order of the code; each strategy
\* starts from the pattern state its predecessor left
RECURSIVE RunStrategies(_, _, _)
RunStrategies(sh, n, acc) ==
    IF n > 4 THEN acc
    ELSE The({RunStrategies(sh, n + 1, [results |-> Append(acc.results, x.result), re |-> x.re]) :
                 x \in {CASE n = 1 -> parseRoomRowLayout(sh, acc.re)
                          [] n = 2 -> parseColumnBasedDays(sh, acc.re)
                          [] n = 3 -> parsePerSheetSections(sh, sh.name, acc.re)
                          [] n = 4 -> parseBruteForce(sh, acc.re)}})

(***************************************************************************)
(* Post-processing                                                         *)
(***************************************************************************)
\* Array.prototype.sort: lt holds <<i, j>> when the comparator puts seq[i]
\* below seq[j].  The sort is stable, so an element comes before another
\* when it compares lower, or equal and it was first.
Sort(seq, lt) ==
    [p \in DOMAIN seq |->
        seq[CHOOSE i \in DOMAIN seq :
                Cardinality({j \in DOMAIN seq :
                    <<j, i>> \in lt \/ (<<i, j>> \notin lt /\ j < i)}) + 1 = p]]

\* The characters of the fixtures in ascending UTF-16 code unit order
CharOrder == <<"\n", " ", "!", "#", "&", "(", ")", ",", "-", ".", "/">> \o DigitChars
             \o <<":">> \o UpperAZ \o <<"_">> \o LowerAZ \o <<EnDash, EmDash>>

\* the default comparison of Array.prototype.sort(): by code units
RECURSIVE StrCmp(_, _)
StrCmp(a, b) ==
    IF a = <<>> /\ b = <<>> THEN 0
    ELSE IF a = <<>> THEN -1
    ELSE IF b = <<>> THEN 1
    ELSE IF Head(a) # Head(b) THEN IndexIn(CharOrder, Head(a)) - IndexIn(CharOrder, Head(b))
    ELSE StrCmp(Tail(a), Tail(b))

\* result.avgConfidence > bestResult.avgConfidence, on fractions
AvgGreater(a, b) == a.num * b.den > b.num * a.den

\* Arbitrate by the entry count alone: with it the first of the results
\* that tie is kept and C7 does not hold
RECURSIVE ArbitrateByCount(_, _, _)
ArbitrateByCount(results, i, best) ==
    IF i > Len(results) THEN best
    ELSE IF Len(results[i].entries) > Len(best.entries)
         THEN ArbitrateByCount(results, i + 1, results[i])
         ELSE ArbitrateByCount(results, i + 1, best)

\* the arbitration loop over allStrategyResults from index i on
RECURSIVE Arbitrate(_, _, _)
Arbitrate(results, i, best) ==
    IF i > Len(results) THEN best
    ELSE IF \/ Len(results[i].entries) > Len(best.entries)
            \/ /\ Len(results[i].entries) = Len(best.entries)
               /\ AvgGreater(results[i].avgConfidence, best.avgConfidence)
         THEN Arbitrate(results, i + 1, results[i])
         ELSE Arbitrate(results, i + 1, best)

NoResult == [entries |-> <<>>, strategyName |-> "none", origins |-> <<>>,
             avgConfidence |-> [num |-> 0, den |-> 1]]

\* DedupKey without the room: with it classes that differ in the room
\* only count as one and C6 does not hold
DedupKeyNoRoom(e) == <<e.section, e.day, e.startTime, e.subject, e.teacher>>

\* `${e.section}|${e.day}|${e.startTime}|${e.subject}|${e.teacher}|${e.room}`
DedupKey(e) == <<e.section, e.day, e.startTime, e.subject, e.teacher, e.room>>

\* entries.filter with the seen set: an entry is kept when no earlier entry has its key
Deduplicate(entries) ==
    Pick(entries, {i \in DOMAIN entries :
                      \A j \in 1..(i - 1) : DedupKey(entries[j]) # DedupKey(entries[i])})

\* EntryCmp by the day alone: with it the entries of a day keep the order
\* they were found in and C5 does not hold
EntryCmpDayOnly(a, b) == DAY_ORDER(a.day) - DAY_ORDER(b.day)

EntryCmp(a, b) ==
    IF DAY_ORDER(a.day) - DAY_ORDER(b.day) # 0 THEN DAY_ORDER(a.day) - DAY_ORDER(b.day)
    ELSE time12ToMinutes(a.startTime) - time12ToMinutes(b.startTime)

SortEntries(unique) ==
    Sort(unique, {ij \in (DOMAIN unique) \X (DOMAIN unique) :
                     EntryCmp(unique[ij[1]], unique[ij[2]]) < 0})

\* FilterBySection with the two branches exchanged: a requested section
\* keeps every entry, and C9 does not hold
FilterBySectionSwapped(unique, sectionFilter) ==
    IF sectionFilter = <<>>
    THEN Pick(unique, {i \in DOMAIN unique : unique[i].section = sectionFilter})
    ELSE unique

\* sectionFilter ? unique.filter(e => e.section === sectionFilter) : unique
FilterBySection(unique, sectionFilter) ==
    IF sectionFilter # <<>>
    THEN Pick(unique, {i \in DOMAIN unique : unique[i].section = sectionFilter})
    ELSE unique

\* [...new Set(unique.map(e => e.section))].sort()
SectionsList(unique) ==
    The({Sort(all, {ij \in (DOMAIN all) \X (DOMAIN all) : StrCmp(all[ij[1]], all[ij[2]]) < 0}) :
            all \in {Distinct([i \in DOMAIN unique |-> unique[i].section])}})

\* a.split(" \u2013 ")[0].trim() of a time label
LabelStart(label) ==
    trim(SubSeq(label, 1, MinOf({i \in 1..(Len(label) + 1) :
                                    i > Len(label) \/ HasAt(label, i, <<" ", EnDash, " ">>)}) - 1))

MaxOf(S) == CHOOSE x \in S : \A y \in S : y <= x

\* SectionInfo with the last entry of a day and label in the grid cell, not
\* the first that Array.find gives: with it C28 does not hold
SectionInfoLastMatch(secEntries) ==
    The({[entries |-> secEntries,
          grid |-> [t \in Range(times) |->
                       [d \in {x \in Range(days) :
                                  \E e \in Range(secEntries) : e.day = x /\ e.time = t} |->
                           The({[subject |-> match.subject, teacher |-> match.teacher,
                                 room |-> match.room, confidence |-> match.confidence] :
                                   match \in {secEntries[MaxOf({i \in DOMAIN secEntries :
                                       secEntries[i].day = d /\ secEntries[i].time = t})]}})]],
          days |-> days, times |-> times] :
            <<days, times>> \in
                {<<Sort(ds, {ij \in (DOMAIN ds) \X (DOMAIN ds) :
                               DAY_ORDER(ds[ij[1]]) - DAY_ORDER(ds[ij[2]]) < 0}),
                   Sort(ts, {ij \in (DOMAIN ts) \X (DOMAIN ts) :
                               time12ToMinutes(LabelStart(ts[ij[1]]))
                               - time12ToMinutes(LabelStart(ts[ij[2]])) < 0})>> :
                    <<ds, ts>> \in {<<Distinct([i \in DOMAIN secEntries |-> secEntries[i].day]),
                                      Distinct([i \in DOMAIN secEntries |-> secEntries[i].time])>>}}})

\* The Section Info of one section's merged entries
SectionInfo(secEntries) ==
    The({[entries |-> secEntries,
          grid |-> [t \in Range(times) |->
                       [d \in {x \in Range(days) :
                                  \E e \in Range(secEntries) : e.day = x /\ e.time = t} |->
                           The({[subject |-> match.subject, teacher |-> match.teacher,
                                 room |-> match.room, confidence |-> match.confidence] :
                                   match \in {secEntries[MinOf({i \in DOMAIN secEntries :
                                       secEntries[i].day = d /\ secEntries[i].time = t})]}})]],
          days |-> days, times |-> times] :
            <<days, times>> \in
                {<<Sort(ds, {ij \in (DOMAIN ds) \X (DOMAIN ds) :
                               DAY_ORDER(ds[ij[1]]) - DAY_ORDER(ds[ij[2]]) < 0}),
                   Sort(ts, {ij \in (DOMAIN ts) \X (DOMAIN ts) :
                               time12ToMinutes(LabelStart(ts[ij[1]]))
                               - time12ToMinutes(LabelStart(ts[ij[2]])) < 0})>> :
                    <<ds, ts>> \in {<<Distinct([i \in DOMAIN secEntries |-> secEntries[i].day]),
                                      Distinct([i \in DOMAIN secEntries |-> secEntries[i].time])>>}}})

\* BuildSectionData without the continue of line 855: a requested section
\* gets a key even when no entry belongs to it, and C11 does not hold
BuildSectionDataKeepEmpty(filtered, sectionsList, sectionFilter) ==
    [sec \in Range(IF sectionFilter # <<>> THEN <<sectionFilter>> ELSE sectionsList) |->
        [entries |-> mergeConsecutiveClasses(
            Pick(filtered, {i \in DOMAIN filtered : filtered[i].section = sec}))]]

\* the loop over sectionsToShow: the sections that get a key, with their info
BuildSectionData(filtered, sectionsList, sectionFilter) ==
    [sec \in {s \in Range(IF sectionFilter # <<>> THEN <<sectionFilter>> ELSE sectionsList) :
                 \E e \in Range(filtered) : e.section = s} |->
        SectionInfo(mergeConsecutiveClasses(
            Pick(filtered, {i \in DOMAIN filtered : filtered[i].section = sec})))]

(***************************************************************************)
(* Workbooks                                                               *)
(***************************************************************************)
\* A sheet from its rows of cell texts (row 0 first, column 0 first; <<>> is
\* an absent cell); the range is A1 to the last cell, as SheetJS writes "!ref"
Sheet(name, rows, merges) ==
    LET nc == Len(rows[1])
        addrs == {<<r, c>> \in (0..(Len(rows) - 1)) \X (0..(nc - 1)) : rows[r + 1][c + 1] # <<>>}
    IN  [name |-> name, hasRef |-> TRUE, s |-> <<0, 0>>, e |-> <<Len(rows) - 1, nc - 1>>,
         cells |-> [a \in addrs |-> rows[a[1] + 1][a[2] + 1]], merges |-> merges]

\* cell texts of the fixtures
T_Slot1 == <<"0","8",":","0","0","-","0","9",":","3","0">>
T_Slot2 == <<"0","9",":","3","0","-","1","1",":","0","0">>
T_Monday == <<"M","o","n","d","a","y">>
T_Tuesday == <<"T","u","e","s","d","a","y">>
T_Room05 == <<"R","o","o","m"," ","0","5">>
T_DataStructures == <<"D","a","t","a"," ","S","t","r","u","c","t","u","r","e","s","\n","M","r","."," ","A","h","m","e","d"," ","K","h","a","n","\n","B","S","S","E","-","4","C">>
T_SheetName == <<"S","h","e","e","t","1">>

\* The round-trip sheet: a time-header row, two day rows sharing one merged
\* 2x1 room cell, lecture cells x (Monday, first slot), y (Monday, second
\* slot) and z (Tuesday, first slot)
RoomRowSheet(x, y, z) ==
    Sheet(T_SheetName,
          << << <<>>,      <<>>,     T_Slot1, T_Slot2 >>,
             << T_Monday,  T_Room05, x,       y       >>,
             << T_Tuesday, <<>>,     z,       <<>>    >> >>,
          << [s |-> <<1, 1>>, e |-> <<2, 1>>] >>)


(***************************************************************************)
(* Uploaded files.  A file is named by an id; Workbook(id) is what         *)
(* XLSX.read makes of its bytes: the sheets in SheetNames order.           *)
(***************************************************************************)
T_AI == <<"A","r","t","i","f","i","c","i","a","l"," ","I","n","t","e","l","l","i","g","e","n","c","e","\n","M","r","."," ","A","l","i","\n","B","S","S","E","-","4","C"," ","B","S","A","I","-","7","A">>
T_Short == <<"B","S","S","E","-","4","C"," ","B","S","A","I","-","7","A","\n","A","I"," ","L","a","b","\n","M","r","."," ","A","l","i">>
T_Bare == <<"B","S","S","E","-","4","C">>
T_Calculus == <<"C","a","l","c","u","l","u","s","\n","D","r","."," ","S","a","r","a","\n","B","S","C","S","-","1","A">>
T_Break == <<"L","u","n","c","h"," ","B","r","e","a","k">>

\* a sheet that has no "!ref" (no cell was ever written)
BlankSheet(name) ==
    [name |-> name, hasRef |-> FALSE, s |-> <<0, 0>>, e |-> <<0, 0>>,
     cells |-> <<>>, merges |-> <<>>]

\* a long-format sheet: one lecture per row under a header row
ColumnSheet ==
    Sheet(<<"L","o","n","g">>,
          << << <<"C","l","a","s","s">>, <<"C","o","u","r","s","e">>, <<"T","e","a","c","h","e","r">>, <<"D","a","y">>, <<"T","i","m","e">> >>,
             << <<"b","s","s","e","-","4","c">>, <<"D","a","t","a"," ","S","t","r","u","c","t","u","r","e","s">>, <<"M","r","."," ","A","h","m","e","d"," ","K","h","a","n">>, <<"M","o","n">>, T_Slot1 >>,
             << <<"B","S","A","I","-","7","A">>, <<"C","a","l","c","u","l","u","s">>, <<"D","r","."," ","S","a","r","a">>, <<"T","u","e","s","d","a","y">>, <<"9",":","3","0"," ","t","o"," ","1","1",":","0","0">> >> >>,
          <<>>)

\* a sheet named after its section: days across, time slots down
SectionSheet ==
    Sheet(<<"B","S","A","I","-","7","A">>,
          << << <<>>,    <<"M","o","n">>,                  <<"T","u","e">>, <<"W","e","d">> >>,
             << T_Slot1, <<"C","a","l","c","u","l","u","s","\n","D","r","."," ","S","a","r","a">>,   <<>>,    T_Break >>,
             << T_Slot2, <<"C","a","l","c","u","l","u","s","\n","D","r","."," ","S","a","r","a">>,   <<>>,    <<>>    >> >>,
          <<>>)

\* a room-row sheet whose day cell spans both room rows and whose first
\* lecture spans both time slots; the cells the regions cover keep texts of
\* their own
MergedSheet ==
    Sheet(T_SheetName,
          << << <<>>,      <<>>,     T_Slot1,          T_Slot2 >>,
             << T_Monday,  T_Room05, T_DataStructures, T_Break >>,
             << T_Tuesday, <<>>,     T_Calculus,       <<>>    >> >>,
          << [s |-> <<1, 0>>, e |-> <<2, 0>>],
             [s |-> <<1, 1>>, e |-> <<2, 1>>],
             [s |-> <<1, 2>>, e |-> <<1, 3>>] >>)

\* a room-row sheet whose second lecture names no teacher; the cell below
\* it holds the teacher's name
T_NoTeacher == <<"D","a","t","a"," ","S","t","r","u","c","t","u","r","e","s","\n","B","S","S","E","-","4","C">>
T_Teacher == <<"M","r","."," ","A","h","m","e","d"," ","K","h","a","n">>
InferredSheet ==
    Sheet(T_SheetName,
          << << <<>>,      <<>>,     T_Slot1,          T_Slot2     >>,
             << T_Monday,  T_Room05, T_DataStructures, T_NoTeacher >>,
             << T_Tuesday, <<>>,     <<>>,             T_Teacher   >> >>,
          << [s |-> <<1, 1>>, e |-> <<2, 1>>] >>)

Files == {"roundtrip", "explode", "carry", "double", "bare", "twosheets",
          "column", "persheet", "merged", "inferred", "blank", "corrupt"}

\* the files XLSX.read throws on
Unreadable == {"corrupt"}

Workbook(id) ==
    CASE id = "roundtrip" -> << RoomRowSheet(T_DataStructures, <<>>, <<>>) >>
      [] id = "explode"   -> << RoomRowSheet(T_AI, <<>>, T_DataStructures) >>
      [] id = "carry"     -> << RoomRowSheet(T_DataStructures, T_Short, <<>>) >>
      [] id = "double"    -> << RoomRowSheet(T_DataStructures, T_DataStructures, T_Calculus) >>
      [] id = "bare"      -> << RoomRowSheet(T_Bare, <<>>, T_Break) >>
      [] id = "twosheets" -> << RoomRowSheet(T_Calculus, <<>>, <<>>),
                                RoomRowSheet(T_AI, <<>>, <<>>) >>
      [] id = "column"    -> << ColumnSheet >>
      [] id = "persheet"  -> << SectionSheet >>
      [] id = "merged"    -> << MergedSheet >>
      [] id = "inferred"  -> << InferredSheet >>
      [] id = "blank"     -> << BlankSheet(T_SheetName) >>

\* the values of the optional form field "section"; NoField is its absence
NoField == "null"
SectionFields == {NoField, <<"B","S","S","E","-","4","C">>, <<" ","b","s","a","i","-","7","a"," ">>}

(***************************************************************************)
(* The page (app/page.tsx)                                                 *)
(***************************************************************************)
\* the files the user picks and the texts typed in the section box
PageFiles == {"roundtrip", "explode", "corrupt"}
SectionInputs == {<<>>, <<"B","S","S","E","-","4","C">>, <<" ","b","s","a","i","-","7","a"," ">>}

\* the keys of sectionData in the answer of POST /api/parse for file f and
\* section filter sec, in their order: the sections of the file that hold
\* entries, or the requested one of them
SectionKeysOf(f, sec) ==
    LET all == CASE f = "roundtrip" -> << <<"B","S","S","E","-","4","C">> >>
                 [] f = "explode"   -> << <<"B","S","A","I","-","7","A">>, <<"B","S","S","E","-","4","C">> >>
                 [] OTHER           -> <<>>
    IN  IF sec = <<>> THEN all
        ELSE IF sec \in Range(all) THEN <<sec>> ELSE <<>>

\* the ParseResult the page reads from a 200 answer; null is NoData
NoData == [file |-> "null", section |-> <<>>, sectionData |-> <<>>]
ParseResultOf(f, field) ==
    [file |-> f,
     section |-> IF toUpperCase(trim(field)) # <<>> THEN toUpperCase(trim(field))
                 ELSE <<"A","L","L">>,
     sectionData |-> SectionKeysOf(f, toUpperCase(trim(field)))]

\* localStorage with neither key set
NoStorage == [timetable_data |-> NoData, timetable_file |-> "null"]

\* no upload started yet
NoUpload == [id |-> 0, file |-> "null", field |-> <<>>, outcome |-> "none"]

\* the page after mount and hydration (lines 48-72) over the storage st
Hydrated(st) ==
    [data |-> st.timetable_data,
     loading |-> FALSE,
     error |-> "",
     sectionInput |-> <<>>,
     activeSection |-> IF st.timetable_data.sectionData # <<>>
                       THEN st.timetable_data.sectionData[1] ELSE <<>>,
     fileName |-> IF st.timetable_file # "null" THEN st.timetable_file ELSE "",
     storedFileRef |-> "null",
     localStorage |-> st,
     requests |-> {},            \* the fetches not answered yet
     started |-> 0,              \* uploads started so far
     latest |-> NoUpload,        \* the upload started last and how it ended
     resetSince |-> FALSE]       \* Reset was pressed after the last start

HomeFresh == Hydrated(NoStorage)

\* lines 74-81 of handleUpload, up to the await of fetch: the form holds the
\* trimmed section when it is not blank
StartUpload(h, f, given, section) ==
    LET sec == IF given THEN section ELSE h.sectionInput
        q == [id |-> h.started + 1, file |-> f, field |-> trim(sec)]
    IN  [h EXCEPT !.loading = TRUE,
                  !.error = "",
                  !.storedFileRef = f,
                  !.requests = @ \cup {q},
                  !.started = @ + 1,
                  !.latest = [id |-> q.id, file |-> f, field |-> q.field,
                              outcome |-> "pending"],
                  !.resetSince = FALSE]

\* lines 83-92 and 96: the answer of request q is a ParseResult
UploadSucceeds(h, q) ==
    LET result == ParseResultOf(q.file, q.field)
    IN  [h EXCEPT !.data = result,
                  !.localStorage = [timetable_data |-> result, timetable_file |-> q.file],
                  !.fileName = q.file,
                  !.activeSection = IF result.sectionData # <<>>
                                    THEN result.sectionData[1] ELSE <<>>,
                  !.loading = FALSE,
                  !.requests = @ \ {q},
                  !.latest = IF @.id = q.id THEN [@ EXCEPT !.outcome = "ok"] ELSE @]

\* lines 84 and 93-96: the answer is not ok, or fetch or res.json() throws
UploadFails(h, q, message) ==
    [h EXCEPT !.error = message,
              !.loading = FALSE,
              !.requests = @ \ {q},
              !.latest = IF @.id = q.id THEN [@ EXCEPT !.outcome = "failed"] ELSE @]

(***************************************************************************)
(* parseLectureCellsAI (lib/ai.ts)                                         *)
(***************************************************************************)
MaxCells == 2
MaxReply == 3

\* the cell texts handed to the function
AiCells == UNION {[1..n -> {T_DataStructures, T_Break}] : n \in 0..MaxCells}

\* the lectures a reply can hold
UnknownLecture == [subject |-> <<"U","n","k","n","o","w","n">>, teacher |-> <<"U","n","k","n","o","w","n">>, sections |-> <<>>]
KnownLecture == [subject |-> <<"D","a","t","a"," ","S","t","r","u","c","t","u","r","e","s">>, teacher |-> <<"M","r","."," ","A","h","m","e","d"," ","K","h","a","n">>,
                 sections |-> << <<"B","S","S","E","-","4","C">> >>]

\* what JSON.parse makes of a generated text: it throws, or it returns a
\* value that is an array of lectures or something else (an object, a
\* number, null)
JsonTexts ==
    {[parses |-> FALSE, array |-> FALSE, items |-> <<>>],
     [parses |-> TRUE, array |-> FALSE, items |-> <<>>]}
    \cup {[parses |-> TRUE, array |-> TRUE, items |-> s] :
             s \in UNION {[1..n -> {UnknownLecture, KnownLecture}] : n \in 0..MaxReply}}

\* what becomes of the request of lines 37-47: it fails (no connection, a
\* status outside 2xx), it runs into the timeout of 60 s, it is answered
\* with no generated_text, or it is answered with a generated text
NoText == [parses |-> FALSE, array |-> FALSE, items |-> <<>>]
ServiceReplies ==
    {[kind |-> k, text |-> NoText] : k \in {"failure", "timeout", "notext"}}
    \cup {[kind |-> "text", text |-> t] : t \in JsonTexts}

\* lines 50, 57: one unknown lecture per cell
AiFallback(cells) ==
    [array |-> TRUE, items |-> [i \in 1..Len(cells) |-> UnknownLecture]]

\* lines 48-58: what the function returns once the request has ended
AiContinue(cells, reply) ==
    IF reply.kind \in {"failure", "timeout"} THEN AiFallback(cells)
    ELSE IF reply.kind = "notext" THEN AiFallback(cells)
    ELSE IF ~reply.text.parses THEN AiFallback(cells)
    ELSE [array |-> reply.text.array, items |-> reply.text.items]

\* no call in progress
AiFresh ==
    [pc |-> "idle", cells |-> <<>>, posted |-> FALSE,
     reply |-> [kind |-> "none", text |-> NoText],
     returned |-> [array |-> TRUE, items |-> <<>>]]

\* ==== state machine ====
(***************************************************************************)
(* POST /api/parse                                                         *)
(***************************************************************************)
MaxRequests == 2

\* (avgConfidence * 100).toFixed(1) + "%": the tenths of a percent are the
\* thousandths of the average, rounded to the nearest
FormatPercent(avg) ==
    LET q == (2 * avg.num + avg.den) \div (2 * avg.den)
    IN  NumToStr(q \div 10) \o <<".">> \o NumToStr(q % 10) \o <<"%">>

\* the first 35 non-empty cells of the first sheet, row by row, trimmed
SampleCells(sheets) ==
    LET sh == sheets[1]
        RECURSIVE Scan(_, _)
        Scan(r, c) ==
            IF r > sh.e[1] THEN <<>>
            ELSE IF c > sh.e[2] THEN Scan(r + 1, sh.s[2])
            ELSE (IF <<r, c>> \in DOMAIN sh.cells /\ trim(sh.cells[<<r, c>>]) # <<>>
                  THEN <<trim(sh.cells[<<r, c>>])>> ELSE <<>>) \o Scan(r, c + 1)
        all == Scan(sh.s[1], sh.s[2])
    IN  IF Len(sheets) = 0 \/ ~sh.hasRef THEN <<>>
        ELSE SubSeq(all, 1, Min(35, Len(all)))

VARIABLES
    pc,                 \* where the handler of the request in progress stands
    file,               \* formData.get("file"): a file id or NoField
    sectionFilter,      \* the normalised section field
    workbook,           \* [read, sheets]: the workbook once XLSX.read returned
    sampleCells,
    sheetIdx,           \* the position of the loop over workbook.SheetNames
    allStrategyResults,
    bestResult,
    unique,
    filtered,
    sectionsList,
    sectionData,
    hf,                 \* the diagnostic call: "idle", "pending" or its outcome
    aiAnalysis,
    response,           \* [status, body]; status 0 while no response is sent
    re,                 \* lastIndex of SECTION_PATTERN (s) and COMBINED_SECTION_PATTERN (c)
    HF_TOKEN,           \* whether the environment provides a token
    nReq,               \* requests received so far
    home,               \* the page: the state of Home, local storage, the uploads in flight
    ai                  \* the call of parseLectureCellsAI in progress

vars == <<pc, file, sectionFilter, workbook, sampleCells, sheetIdx, allStrategyResults,
          bestResult, unique, filtered, sectionsList, sectionData, hf, aiAnalysis,
          response, re, HF_TOKEN, nReq, home, ai>>

NoWorkbook == [read |-> FALSE, sheets |-> <<>>]
NoResponse == [status |-> 0, body |-> [error |-> ""]]

\* the locals of a handler invocation that has not run yet
Fresh ==
    [workbook |-> NoWorkbook, sampleCells |-> <<>>, sheetIdx |-> 0,
     allStrategyResults |-> <<>>, bestResult |-> NoResult, unique |-> <<>>,
     filtered |-> <<>>, sectionsList |-> <<>>, sectionData |-> <<>>, hf |-> "idle",
     aiAnalysis |-> "null", response |-> NoResponse]

Init ==
    /\ pc = "idle"
    /\ file = NoField
    /\ sectionFilter = <<>>
    /\ workbook = Fresh.workbook
    /\ sampleCells = Fresh.sampleCells
    /\ sheetIdx = Fresh.sheetIdx
    /\ allStrategyResults = Fresh.allStrategyResults
    /\ bestResult = Fresh.bestResult
    /\ unique = Fresh.unique
    /\ filtered = Fresh.filtered
    /\ sectionsList = Fresh.sectionsList
    /\ sectionData = Fresh.sectionData
    /\ hf = Fresh.hf
    /\ aiAnalysis = Fresh.aiAnalysis
    /\ response = Fresh.response
    /\ re = [s |-> 0, c |-> 0]
    /\ HF_TOKEN \in BOOLEAN
    /\ nReq = 0
    /\ home = HomeFresh
    /\ ai = AiFresh

\* lines 755-757: a request arrives; the locals of the new invocation are fresh
Receive(f, sec) ==
    /\ pc \in {"idle", "done"}
    /\ nReq < MaxRequests
    /\ nReq' = nReq + 1
    /\ file' = f
    /\ sectionFilter' = toUpperCase(trim(IF sec = NoField THEN <<>> ELSE sec))
    /\ workbook' = Fresh.workbook
    /\ sampleCells' = Fresh.sampleCells
    /\ sheetIdx' = Fresh.sheetIdx
    /\ allStrategyResults' = Fresh.allStrategyResults
    /\ bestResult' = Fresh.bestResult
    /\ unique' = Fresh.unique
    /\ filtered' = Fresh.filtered
    /\ sectionsList' = Fresh.sectionsList
    /\ sectionData' = Fresh.sectionData
    /\ hf' = Fresh.hf
    /\ aiAnalysis' = Fresh.aiAnalysis
    /\ response' = Fresh.response
    /\ pc' = "received"
    /\ UNCHANGED <<re, HF_TOKEN,
                   home, ai>>

\* RejectNoFile without the check of line 759: the read of line 764 throws
\* on the missing file and the catch answers 500; C10 does not hold with it
RejectNoFileUnchecked ==
    /\ pc = "received"
    /\ file = NoField
    /\ response' = [status |-> 500, body |-> [error |-> "Unknown error"]]
    /\ pc' = "done"
    /\ UNCHANGED <<file, sectionFilter, workbook, sampleCells, sheetIdx, allStrategyResults,
                   bestResult, unique, filtered, sectionsList, sectionData, hf, aiAnalysis,
                   re, HF_TOKEN, nReq,
                   home, ai>>

\* lines 759-761
RejectNoFile ==
    /\ pc = "received"
    /\ file = NoField
    /\ response' = [status |-> 400, body |-> [error |-> "No file provided"]]
    /\ pc' = "done"
    /\ UNCHANGED <<file, sectionFilter, workbook, sampleCells, sheetIdx, allStrategyResults,
                   bestResult, unique, filtered, sectionsList, sectionData, hf, aiAnalysis,
                   re, HF_TOKEN, nReq,
                   home, ai>>

\* lines 763-782: the workbook is read and the diagnostic's samples are taken
ReadWorkbook ==
    /\ pc = "received"
    /\ file # NoField
    /\ file \notin Unreadable
    /\ workbook' = [read |-> TRUE, sheets |-> Workbook(file)]
    /\ sampleCells' = SampleCells(Workbook(file))
    /\ sheetIdx' = 1
    /\ pc' = "sheets"
    /\ UNCHANGED <<file, sectionFilter, allStrategyResults, bestResult, unique, filtered,
                   sectionsList, sectionData, hf, aiAnalysis, response, re, HF_TOKEN, nReq,
                   home, ai>>

\* ReadFails answering with a success payload built from what the handler
\* holds when line 764 throws; C14 does not hold with it
ReadFailsPartial ==
    /\ pc = "received"
    /\ file \in Unreadable
    /\ response' = [status |-> 200,
                    body |-> [success |-> TRUE, sectionData |-> sectionData,
                              error |-> "Unknown error"]]
    /\ pc' = "done"
    /\ UNCHANGED <<file, sectionFilter, workbook, sampleCells, sheetIdx, allStrategyResults,
                   bestResult, unique, filtered, sectionsList, sectionData, hf, aiAnalysis,
                   re, HF_TOKEN, nReq,
                   home, ai>>

\* line 764 throws; lines 897-900 answer
ReadFails ==
    /\ pc = "received"
    /\ file \in Unreadable
    /\ response' = [status |-> 500, body |-> [error |-> "Unknown error"]]
    /\ pc' = "done"
    /\ UNCHANGED <<file, sectionFilter, workbook, sampleCells, sheetIdx, allStrategyResults,
                   bestResult, unique, filtered, sectionsList, sectionData, hf, aiAnalysis,
                   re, HF_TOKEN, nReq,
                   home, ai>>

\* lines 784-815: one iteration of the loop over the sheets
ParseSheet ==
    /\ pc = "sheets"
    /\ sheetIdx <= Len(workbook.sheets)
    /\ IF workbook.sheets[sheetIdx].hasRef
       THEN \E run \in {RunStrategies(workbook.sheets[sheetIdx], 1,
                                       [results |-> <<>>, re |-> re])} :
                /\ allStrategyResults' = allStrategyResults \o run.results
                /\ re' = run.re
       ELSE UNCHANGED <<allStrategyResults, re,
                   home, ai>>
    /\ sheetIdx' = sheetIdx + 1
    /\ UNCHANGED <<pc, file, sectionFilter, workbook, sampleCells, bestResult, unique, filtered,
                   sectionsList, sectionData, hf, aiAnalysis, response, HF_TOKEN, nReq,
                   home, ai>>

\* lines 817-827
SelectBest ==
    /\ pc = "sheets"
    /\ sheetIdx > Len(workbook.sheets)
    /\ bestResult' = Arbitrate(allStrategyResults, 1, NoResult)
    /\ pc' = "dedup"
    /\ UNCHANGED <<file, sectionFilter, workbook, sampleCells, sheetIdx, allStrategyResults,
                   unique, filtered, sectionsList, sectionData, hf, aiAnalysis, response,
                   re, HF_TOKEN, nReq,
                   home, ai>>

\* lines 829-835
Dedup ==
    /\ pc = "dedup"
    /\ unique' = Deduplicate(bestResult.entries)
    /\ pc' = "sort"
    /\ UNCHANGED <<file, sectionFilter, workbook, sampleCells, sheetIdx, allStrategyResults,
                   bestResult, filtered, sectionsList, sectionData, hf, aiAnalysis, response,
                   re, HF_TOKEN, nReq,
                   home, ai>>

\* lines 837-841: unique is sorted in place
SortUnique ==
    /\ pc = "sort"
    /\ unique' = SortEntries(unique)
    /\ pc' = "filter"
    /\ UNCHANGED <<file, sectionFilter, workbook, sampleCells, sheetIdx, allStrategyResults,
                   bestResult, filtered, sectionsList, sectionData, hf, aiAnalysis, response,
                   re, HF_TOKEN, nReq,
                   home, ai>>

\* lines 843-849
FilterSection ==
    /\ pc = "filter"
    /\ filtered' = FilterBySection(unique, sectionFilter)
    /\ sectionsList' = SectionsList(unique)
    /\ pc' = "build"
    /\ UNCHANGED <<file, sectionFilter, workbook, sampleCells, sheetIdx, allStrategyResults,
                   bestResult, unique, sectionData, hf, aiAnalysis, response, re, HF_TOKEN, nReq,
                   home, ai>>

\* lines 851-883
BuildSections ==
    /\ pc = "build"
    /\ sectionData' = BuildSectionData(filtered, sectionsList, sectionFilter)
    /\ pc' = "diagnostic"
    /\ UNCHANGED <<file, sectionFilter, workbook, sampleCells, sheetIdx, allStrategyResults,
                   bestResult, unique, filtered, sectionsList, hf, aiAnalysis, response,
                   re, HF_TOKEN, nReq,
                   home, ai>>

\* lines 885, 311-314: without a token the diagnostic answers null at once
SkipDiagnostic ==
    /\ pc = "diagnostic"
    /\ ~HF_TOKEN
    /\ aiAnalysis' = "null"
    /\ pc' = "respond"
    /\ UNCHANGED <<file, sectionFilter, workbook, sampleCells, sheetIdx, allStrategyResults,
                   bestResult, unique, filtered, sectionsList, sectionData, hf, response,
                   re, HF_TOKEN, nReq,
                   home, ai>>

\* lines 885, 316-358: the request to the inference service is sent and awaited
CallDiagnostic ==
    /\ pc = "diagnostic"
    /\ HF_TOKEN
    /\ hf' = "pending"
    /\ pc' = "awaiting"
    /\ UNCHANGED <<file, sectionFilter, workbook, sampleCells, sheetIdx, allStrategyResults,
                   bestResult, unique, filtered, sectionsList, sectionData, aiAnalysis,
                   response, re, HF_TOKEN, nReq,
                   home, ai>>

\* lines 360-384: the service answers, or the call fails
DiagnosticOutcomes == {"answer", "status", "empty", "throws"}
\* DiagnosticReturns without the catch of lines 377-380: a failed call
\* reaches the catch of line 897 and the request fails; C12 does not hold
DiagnosticReturnsUncaught(outcome) ==
    /\ pc = "awaiting"
    /\ hf = "pending"
    /\ hf' = outcome
    /\ aiAnalysis' = IF outcome = "answer" THEN "report" ELSE "null"
    /\ response' = IF outcome = "throws"
                   THEN [status |-> 500, body |-> [error |-> "Unknown error"]]
                   ELSE response
    /\ pc' = IF outcome = "throws" THEN "done" ELSE "respond"
    /\ UNCHANGED <<file, sectionFilter, workbook, sampleCells, sheetIdx, allStrategyResults,
                   bestResult, unique, filtered, sectionsList, sectionData,
                   re, HF_TOKEN, nReq,
                   home, ai>>

DiagnosticReturns(outcome) ==
    /\ pc = "awaiting"
    /\ hf = "pending"
    /\ hf' = outcome
    /\ aiAnalysis' = IF outcome = "answer" THEN "report" ELSE "null"
    /\ pc' = "respond"
    /\ UNCHANGED <<file, sectionFilter, workbook, sampleCells, sheetIdx, allStrategyResults,
                   bestResult, unique, filtered, sectionsList, sectionData, response,
                   re, HF_TOKEN, nReq,
                   home, ai>>

\* Respond with totalEntries counted before the filter (unique.length):
\* with it C27 does not hold
RespondCountsUnique ==
    /\ pc = "respond"
    /\ response' = [status |-> 200,
                    body |-> [success |-> TRUE,
                              section |-> IF sectionFilter # <<>> THEN sectionFilter
                                          ELSE <<"A", "L", "L">>,
                              sectionData |-> sectionData,
                              availableSections |-> sectionsList,
                              totalEntries |-> Len(unique),
                              bestStrategy |-> bestResult.strategyName,
                              avgConfidence |-> FormatPercent(bestResult.avgConfidence),
                              aiAnalysis |-> aiAnalysis]]
    /\ pc' = "done"
    /\ UNCHANGED <<file, sectionFilter, workbook, sampleCells, sheetIdx, allStrategyResults,
                   bestResult, unique, filtered, sectionsList, sectionData, hf, aiAnalysis,
                   re, HF_TOKEN, nReq,
                   home, ai>>

\* lines 887-896
Respond ==
    /\ pc = "respond"
    /\ response' = [status |-> 200,
                    body |-> [success |-> TRUE,
                              section |-> IF sectionFilter # <<>> THEN sectionFilter
                                          ELSE <<"A", "L", "L">>,
                              sectionData |-> sectionData,
                              availableSections |-> sectionsList,
                              totalEntries |-> Len(filtered),
                              bestStrategy |-> bestResult.strategyName,
                              avgConfidence |-> FormatPercent(bestResult.avgConfidence),
                              aiAnalysis |-> aiAnalysis]]
    /\ pc' = "done"
    /\ UNCHANGED <<file, sectionFilter, workbook, sampleCells, sheetIdx, allStrategyResults,
                   bestResult, unique, filtered, sectionsList, sectionData, hf, aiAnalysis,
                   re, HF_TOKEN, nReq,
                   home, ai>>

Next ==
    \/ \E f \in Files \cup {NoField}, sec \in SectionFields : Receive(f, sec)
    \/ RejectNoFile
    \/ ReadWorkbook
    \/ ReadFails
    \/ ParseSheet
    \/ SelectBest
    \/ Dedup
    \/ SortUnique
    \/ FilterSection
    \/ BuildSections
    \/ SkipDiagnostic
    \/ CallDiagnostic
    \/ \E outcome \in DiagnosticOutcomes : DiagnosticReturns(outcome)
    \/ Respond

Spec == Init /\ [][Next]_vars

\* The handler's steps once extraction has finished.  The runtime runs an
\* invocation that is not awaiting anything until it awaits or returns, so
\* these steps are taken when they can be; the answer of the inference
\* service is the service's step, and lines 345-358 set no time limit on it.
AfterExtraction ==
    \/ SkipDiagnostic
    \/ CallDiagnostic
    \/ Respond

LiveSpec == Init /\ [][Next]_vars /\ WF_vars(AfterExtraction)

(***************************************************************************)
(* Post-processing on drawn Parse Results.  The sheets are left out: the   *)
(* handler stands after the loop over the sheets, and allStrategyResults   *)
(* holds results drawn from a pool of entries, in every order and with     *)
(* repetitions, so that arbitration, deduplication, the sort, the filter   *)
(* and the merge are applied to every such input.                          *)
(***************************************************************************)
MaxEntries == 3
MaxResults == 3

\* Monday 8:00-9:30 in room Z, its repetition with another confidence, and
\* the entries that follow it or differ from its follower in one field
EntryPool ==
    {Entry("Monday", <<"8",":","0","0"," ","A","M">>, <<"9",":","3","0"," ","A","M">>, <<"X">>, <<"Y">>, <<"Z">>, <<"B","S","S","E","-","4","C">>, 1000),
     Entry("Monday", <<"8",":","0","0"," ","A","M">>, <<"9",":","3","0"," ","A","M">>, <<"X">>, <<"Y">>, <<"Z">>, <<"B","S","S","E","-","4","C">>, 750),
     Entry("Monday", <<"9",":","3","0"," ","A","M">>, <<"1","1",":","0","0"," ","A","M">>, <<"X">>, <<"Y">>, <<"Z">>, <<"B","S","S","E","-","4","C">>, 750),
     Entry("Monday", <<"9",":","3","0"," ","A","M">>, <<"1","1",":","0","0"," ","A","M">>, <<"X">>, <<"Y">>, <<"Z","2">>, <<"B","S","S","E","-","4","C">>, 1000),
     Entry("Tuesday", <<"9",":","3","0"," ","A","M">>, <<"1","1",":","0","0"," ","A","M">>, <<"X">>, <<"Y">>, <<"Z">>, <<"B","S","S","E","-","4","C">>, 1000),
     Entry("Monday", <<"9",":","3","0"," ","A","M">>, <<"1","1",":","0","0"," ","A","M">>, <<"X">>, <<"Y">>, <<"Z">>, <<"B","S","A","I","-","7","A">>, 1000),
     Entry("Monday", <<"9",":","3","0"," ","A","M">>, <<"1","1",":","0","0"," ","A","M">>, <<"W">>, <<"Y">>, <<"Z">>, <<"B","S","S","E","-","4","C">>, 1000),
     Entry("Monday", <<"9",":","3","0"," ","A","M">>, <<"1","1",":","0","0"," ","A","M">>, <<"X">>, <<"V">>, <<"Z">>, <<"B","S","S","E","-","4","C">>, 1000),
     Entry("Monday", <<"1","1",":","0","0"," ","A","M">>, <<"1","2",":","3","0"," ","P","M">>, <<"X">>, <<"Y">>, <<"Z">>, <<"B","S","S","E","-","4","C">>, 1000),
     Entry("Monday", <<"1","2",":","3","0"," ","P","M">>, <<"2",":","0","0"," ","P","M">>, <<"X">>, <<"Y">>, <<"Z">>, <<"B","S","S","E","-","4","C">>, 1000)}

\* the Parse Result a strategy returns for the entries es
PoolResult(es, name) ==
    ParseResult([entries |-> es, origins |-> [i \in DOMAIN es |-> <<0, 0>>],
                 re |-> [s |-> 0, c |-> 0]], name).result

\* results that tie or differ in entry count and in average confidence
ArbitrationPool ==
    {PoolResult(<<>>, "room-row"),
     PoolResult(<<Entry("Monday", <<"8",":","0","0"," ","A","M">>, <<"9",":","3","0"," ","A","M">>, <<"X">>, <<"Y">>, <<"Z">>, <<"B","S","S","E","-","4","C">>, 1000)>>,
                "column-based"),
     PoolResult(<<Entry("Monday", <<"9",":","3","0"," ","A","M">>, <<"1","1",":","0","0"," ","A","M">>, <<"X">>, <<"Y">>, <<"Z">>, <<"B","S","S","E","-","4","C">>, 750)>>,
                "per-sheet"),
     PoolResult(<<Entry("Monday", <<"8",":","0","0"," ","A","M">>, <<"9",":","3","0"," ","A","M">>, <<"X">>, <<"Y">>, <<"Z">>, <<"B","S","S","E","-","4","C">>, 750),
                  Entry("Monday", <<"9",":","3","0"," ","A","M">>, <<"1","1",":","0","0"," ","A","M">>, <<"X">>, <<"Y">>, <<"Z">>, <<"B","S","S","E","-","4","C">>, 750)>>,
                "brute-force"),
     PoolResult(<<Entry("Monday", <<"8",":","0","0"," ","A","M">>, <<"9",":","3","0"," ","A","M">>, <<"X">>, <<"Y">>, <<"Z">>, <<"B","S","S","E","-","4","C">>, 1000),
                  Entry("Monday", <<"9",":","3","0"," ","A","M">>, <<"1","1",":","0","0"," ","A","M">>, <<"X">>, <<"Y">>, <<"Z">>, <<"B","S","S","E","-","4","C">>, 750)>>,
                "room-row")}

\* one result holding up to MaxEntries pool entries, or up to MaxResults
\* results of the arbitration pool
PoolResults ==
    {<<PoolResult(es, "room-row")>> : es \in UNION {[1..n -> EntryPool] : n \in 0..MaxEntries}}
    \cup UNION {[1..n -> ArbitrationPool] : n \in 2..MaxResults}

PostInit ==
    /\ pc = "sheets"
    /\ file = "pool"
    /\ sectionFilter \in {<<>>, <<"B","S","S","E","-","4","C">>, <<"B","S","A","I","-","7","A">>}
    /\ workbook = [read |-> TRUE, sheets |-> <<>>]
    /\ sampleCells = Fresh.sampleCells
    /\ sheetIdx = 1
    /\ allStrategyResults \in PoolResults
    /\ bestResult = Fresh.bestResult
    /\ unique = Fresh.unique
    /\ filtered = Fresh.filtered
    /\ sectionsList = Fresh.sectionsList
    /\ sectionData = Fresh.sectionData
    /\ hf = Fresh.hf
    /\ aiAnalysis = Fresh.aiAnalysis
    /\ response = Fresh.response
    /\ re = [s |-> 0, c |-> 0]
    /\ HF_TOKEN = FALSE
    /\ nReq = 1
    /\ home = HomeFresh
    /\ ai = AiFresh

PostNext == SelectBest \/ Dedup \/ SortUnique \/ FilterSection \/ BuildSections

PostSpec == PostInit /\ [][PostNext]_vars

(***************************************************************************)
(* parseCell on a lecture cell and its four neighbours.  The sheet is in   *)
(* the room-row layout; the lecture cell is at (2, 3), under the second    *)
(* time slot, so that its left neighbour is the cell under the first slot  *)
(* and its right neighbour lies outside the time columns.                  *)
(***************************************************************************)
CellAt == <<2, 3>>

CellSheet(cell, left, above, right, below) ==
    Sheet(T_SheetName,
          << << <<>>,     <<>>,     T_Slot1, T_Slot2, <<>>  >>,
             << T_Monday, T_Room05, <<>>,    above,   <<>>  >>,
             << <<>>,     <<>>,     left,    cell,    right >>,
             << <<>>,     <<>>,     <<>>,    below,   <<>>  >> >>,
          << [s |-> <<1, 1>>, e |-> <<2, 1>>] >>)

\* lecture cells: complete, without subject, without teacher, a bare code,
\* two titled lines and no subject
CellTexts ==
    {T_DataStructures, <<"M","r","."," ","A","h","m","e","d"," ","K","h","a","n","\n","B","S","S","E","-","4","C">>, T_NoTeacher, T_Bare,
     <<"D","r","."," ","S","a","r","a","\n","M","r","."," ","A","l","i","\n","B","S","S","E","-","4","C">>}
\* neighbours: absent, a subject, a room, a skippable note, a time slot, a
\* titled name
LeftTexts == {<<>>, <<"C","a","l","c","u","l","u","s">>, <<"R","o","o","m"," ","0","7">>, T_Break}
AboveTexts == {<<>>, <<"P","h","y","s","i","c","s">>, T_Slot2}
RightTexts == {<<>>, <<"D","r","."," ","S","a","r","a">>, <<"A","l","g","e","b","r","a">>}
BelowTexts == {<<>>, <<"M","r","."," ","A","l","i">>}

CellInit ==
    /\ pc = "sheets"
    /\ file = "cells"
    /\ sectionFilter = <<>>
    /\ \E cell \in CellTexts, left \in LeftTexts, above \in AboveTexts,
          right \in RightTexts, below \in BelowTexts :
          workbook = [read |-> TRUE, sheets |-> <<CellSheet(cell, left, above, right, below)>>]
    /\ sampleCells = Fresh.sampleCells
    /\ sheetIdx = 1
    /\ allStrategyResults = Fresh.allStrategyResults
    /\ bestResult = Fresh.bestResult
    /\ unique = Fresh.unique
    /\ filtered = Fresh.filtered
    /\ sectionsList = Fresh.sectionsList
    /\ sectionData = Fresh.sectionData
    /\ hf = Fresh.hf
    /\ aiAnalysis = Fresh.aiAnalysis
    /\ response = Fresh.response
    /\ re \in {[s |-> 0, c |-> 0], [s |-> 7, c |-> 0]}
    /\ HF_TOKEN = FALSE
    /\ nReq = 1
    /\ home = HomeFresh
    /\ ai = AiFresh

CellNext == ParseSheet

CellSpec == CellInit /\ [][CellNext]_vars

(***************************************************************************)
(* The row scan of parseRoomRowLayout on sheets made of MaxRows rows, each *)
(* one of: a time-header row, a second time-header row with other slots,   *)
(* a Monday row with a room and two lectures, a row with a room and a      *)
(* lecture but no day, a Tuesday row with a lecture but no room.           *)
(***************************************************************************)
MaxRows == 3

T_Slot3 == <<"1","1",":","0","0","-","1","2",":","3","0">>
T_Slot4 == <<"1","2",":","3","0","-","1","4",":","0","0">>
T_Room06 == <<"R","o","o","m"," ","0","6">>

GateRows ==
    {<< <<>>,      <<>>,     T_Slot1,          T_Slot2    >>,
     << <<>>,      <<>>,     T_Slot3,          T_Slot4    >>,
     << T_Monday,  T_Room05, T_DataStructures, T_Calculus >>,
     << <<>>,      T_Room06, T_AI,             <<>>       >>,
     << T_Tuesday, <<>>,     T_AI,             <<>>       >>}

GateInit ==
    /\ pc = "sheets"
    /\ file = "rows"
    /\ sectionFilter = <<>>
    /\ \E rows \in [1..MaxRows -> GateRows] :
          workbook = [read |-> TRUE, sheets |-> <<Sheet(T_SheetName, rows, <<>>)>>]
    /\ sampleCells = Fresh.sampleCells
    /\ sheetIdx = 1
    /\ allStrategyResults = Fresh.allStrategyResults
    /\ bestResult = Fresh.bestResult
    /\ unique = Fresh.unique
    /\ filtered = Fresh.filtered
    /\ sectionsList = Fresh.sectionsList
    /\ sectionData = Fresh.sectionData
    /\ hf = Fresh.hf
    /\ aiAnalysis = Fresh.aiAnalysis
    /\ response = Fresh.response
    /\ re = [s |-> 0, c |-> 0]
    /\ HF_TOKEN = FALSE
    /\ nReq = 1
    /\ home = HomeFresh
    /\ ai = AiFresh

GateNext == ParseSheet

GateSpec == GateInit /\ [][GateNext]_vars

(***************************************************************************)
(* normalizeTimeSlot on the time cell of a long-format sheet with one data *)
(* row: the column-based strategy pushes the row's entry with the          *)
(* normalized ends when the slot is accepted and nothing when it is        *)
(* rejected.  The cell is written "h:mm-h:mm" or "hhmm-hhmm".  The header  *)
(* scan stops at its fourth key, "Time"; the section column is column 0.   *)
(***************************************************************************)
SlotHours == {0, 1, 7, 8, 12, 23, 24}
SlotMinutes == {5, 60}

SlotText(h1, m1, h2, m2, compact) ==
    IF compact
    THEN PadStart2(h1) \o PadStart2(m1) \o <<"-">> \o PadStart2(h2) \o PadStart2(m2)
    ELSE NumToStr(h1) \o <<":">> \o PadStart2(m1) \o <<"-">> \o NumToStr(h2) \o <<":">> \o PadStart2(m2)

SlotSheet(timeVal) ==
    Sheet(<<"L","o","n","g">>,
          << << <<"C","l","a","s","s">>, <<"C","o","u","r","s","e">>, <<"T","e","a","c","h","e","r">>, <<"D","a","y">>, <<"T","i","m","e">> >>,
             << <<"B","S","S","E","-","4","C">>, <<"D","a","t","a"," ","S","t","r","u","c","t","u","r","e","s">>, <<"M","r","."," ","A","h","m","e","d"," ","K","h","a","n">>, <<"M","o","n">>, timeVal >> >>,
          <<>>)

SlotInit ==
    /\ pc = "sheets"
    /\ file = "slot"
    /\ sectionFilter = <<>>
    /\ \E h1 \in SlotHours, m1 \in SlotMinutes, h2 \in SlotHours, m2 \in SlotMinutes,
          compact \in BOOLEAN :
          workbook = [read |-> TRUE,
                      sheets |-> <<SlotSheet(SlotText(h1, m1, h2, m2, compact))>>]
    /\ sampleCells = Fresh.sampleCells
    /\ sheetIdx = 1
    /\ allStrategyResults = Fresh.allStrategyResults
    /\ bestResult = Fresh.bestResult
    /\ unique = Fresh.unique
    /\ filtered = Fresh.filtered
    /\ sectionsList = Fresh.sectionsList
    /\ sectionData = Fresh.sectionData
    /\ hf = Fresh.hf
    /\ aiAnalysis = Fresh.aiAnalysis
    /\ response = Fresh.response
    /\ re = [s |-> 0, c |-> 0]
    /\ HF_TOKEN = FALSE
    /\ nReq = 1
    /\ home = HomeFresh
    /\ ai = AiFresh

SlotNext == ParseSheet

SlotSpec == SlotInit /\ [][SlotNext]_vars

(***************************************************************************)
(* parseColumnBasedDays on long-format sheets of MaxColRows rows, each one *)
(* of: a header row whose six columns all hold a keyword, a header row     *)
(* whose first column ("Class") holds none, a title row, a complete data   *)
(* row, a data row with no room, a data row with no teacher, a data row    *)
(* with a time slot that is out of range.                                  *)
(***************************************************************************)
MaxColRows == 3

ColRows ==
    {<< <<"S","e","c","t","i","o","n">>, <<"C","o","u","r","s","e">>, <<"T","e","a","c","h","e","r">>, <<"D","a","y">>, <<"T","i","m","e">>, <<"R","o","o","m">> >>,
     << <<"C","l","a","s","s">>, <<"C","o","u","r","s","e">>, <<"T","e","a","c","h","e","r">>, <<"D","a","y">>, <<"T","i","m","e">>, <<"R","o","o","m">> >>,
     << <<"T","i","m","e","t","a","b","l","e"," ","b","y"," ","d","a","y">>, <<>>, <<>>, <<>>, <<>>, <<>> >>,
     << <<"B","S","S","E","-","4","C">>, <<"D","a","t","a"," ","S","t","r","u","c","t","u","r","e","s">>, <<"M","r","."," ","A","h","m","e","d"," ","K","h","a","n">>, <<"M","o","n">>, T_Slot1, <<"0","5">> >>,
     << <<"B","S","A","I","-","7","A">>, <<"C","a","l","c","u","l","u","s">>, <<"D","r","."," ","S","a","r","a">>, <<"T","u","e","s","d","a","y">>, <<"9",":","3","0","-","1","1",":","0","0">>, <<>> >>,
     << <<"B","S","S","E","-","4","C">>, <<"C","a","l","c","u","l","u","s">>, <<>>, <<"W","e","d">>, T_Slot2, <<"0","6">> >>,
     << <<"B","S","C","S","-","1","A">>, <<"C","a","l","c","u","l","u","s">>, <<"D","r","."," ","S","a","r","a">>, <<"F","r","i">>, <<"8",":","7","5","-","9",":","3","0">>, <<"0","6">> >>}

ColInit ==
    /\ pc = "sheets"
    /\ file = "long"
    /\ sectionFilter = <<>>
    /\ \E rows \in [1..MaxColRows -> ColRows] :
          workbook = [read |-> TRUE, sheets |-> <<Sheet(<<"L","o","n","g">>, rows, <<>>)>>]
    /\ sampleCells = Fresh.sampleCells
    /\ sheetIdx = 1
    /\ allStrategyResults = Fresh.allStrategyResults
    /\ bestResult = Fresh.bestResult
    /\ unique = Fresh.unique
    /\ filtered = Fresh.filtered
    /\ sectionsList = Fresh.sectionsList
    /\ sectionData = Fresh.sectionData
    /\ hf = Fresh.hf
    /\ aiAnalysis = Fresh.aiAnalysis
    /\ response = Fresh.response
    /\ re = [s |-> 0, c |-> 0]
    /\ HF_TOKEN = FALSE
    /\ nReq = 1
    /\ home = HomeFresh
    /\ ai = AiFresh

ColNext == ParseSheet

ColSpec == ColInit /\ [][ColNext]_vars

(***************************************************************************)
(* The page: the handlers of Home behind the controls that are rendered,   *)
(* and the answers of the uploads in flight, which arrive in any order.    *)
(* The landing page (no data) shows the section box and the drop zone      *)
(* unless loading; the results view (data) shows the Reset button, the     *)
(* section badges and, when the result holds no section and a file is      *)
(* remembered, the "Load All Sections" button, whether loading or not.     *)
(***************************************************************************)
MaxUploads == 4

AllButHome == <<pc, file, sectionFilter, workbook, sampleCells, sheetIdx,
                allStrategyResults, bestResult, unique, filtered, sectionsList,
                sectionData, hf, aiAnalysis, response, re, HF_TOKEN, nReq, ai>>

\* line 495: the section box of the landing page
setSectionInput(s) ==
    /\ home.data = NoData
    /\ ~home.loading
    /\ home' = [home EXCEPT !.sectionInput = s]
    /\ UNCHANGED AllButHome

\* lines 100-110, 513-518: a file is picked in the file input of the landing
\* page; handleDrop does the same with a dropped file
handleFileChange(f) ==
    /\ home.data = NoData
    /\ ~home.loading
    /\ home.started < MaxUploads
    /\ home' = StartUpload(home, f, FALSE, <<>>)
    /\ UNCHANGED AllButHome

\* lines 850-855: the "Load All Sections" button
LoadAllSections ==
    /\ home.data # NoData
    /\ home.data.sectionData = <<>>
    /\ home.storedFileRef # "null"
    /\ home.started < MaxUploads
    /\ home' = StartUpload(home, home.storedFileRef, TRUE, <<>>)
    /\ UNCHANGED AllButHome

\* lines 119-124, 714: a section badge; the badges are the keys of
\* data.sectionData
handleSectionClick(sec) ==
    /\ home.data # NoData
    /\ sec \in Range(home.data.sectionData)
    /\ home' = IF /\ sec \notin Range(home.data.sectionData)
                  /\ home.storedFileRef # "null"
                  /\ home.started < MaxUploads
               THEN StartUpload([home EXCEPT !.activeSection = sec],
                                home.storedFileRef, TRUE, sec)
               ELSE [home EXCEPT !.activeSection = sec]
    /\ UNCHANGED AllButHome

\* lines 112-117, 348-349, 862: the Reset button of the results view
handleReset ==
    /\ home.data # NoData
    /\ home' = [home EXCEPT !.data = NoData,
                            !.error = "",
                            !.sectionInput = <<>>,
                            !.activeSection = <<>>,
                            !.fileName = "",
                            !.localStorage = NoStorage,
                            !.storedFileRef = "null",
                            !.resetSince = TRUE]
    /\ UNCHANGED AllButHome

\* lines 82-92, 96: the API answers 200 to the upload q
ResponseOk(q) ==
    /\ q \in home.requests
    /\ q.file \notin Unreadable
    /\ home' = UploadSucceeds(home, q)
    /\ UNCHANGED AllButHome

\* lines 82-84: the API answers 500 to the upload q of an unreadable file
ResponseNotOk(q) ==
    /\ q \in home.requests
    /\ q.file \in Unreadable
    /\ home' = UploadFails(home, q, "Failed to parse")
    /\ UNCHANGED AllButHome

\* lines 93-96: the fetch of the upload q fails
FetchThrows(q) ==
    /\ q \in home.requests
    /\ home' = UploadFails(home, q, "Failed to fetch")
    /\ UNCHANGED AllButHome

\* the page is mounted over an empty storage or over the cache of an
\* earlier visit
PageInit ==
    /\ pc = "idle"
    /\ file = NoField
    /\ sectionFilter = <<>>
    /\ workbook = Fresh.workbook
    /\ sampleCells = Fresh.sampleCells
    /\ sheetIdx = Fresh.sheetIdx
    /\ allStrategyResults = Fresh.allStrategyResults
    /\ bestResult = Fresh.bestResult
    /\ unique = Fresh.unique
    /\ filtered = Fresh.filtered
    /\ sectionsList = Fresh.sectionsList
    /\ sectionData = Fresh.sectionData
    /\ hf = Fresh.hf
    /\ aiAnalysis = Fresh.aiAnalysis
    /\ response = Fresh.response
    /\ re = [s |-> 0, c |-> 0]
    /\ HF_TOKEN = FALSE
    /\ nReq = 0
    /\ home \in {Hydrated(NoStorage),
                 Hydrated([timetable_data |-> ParseResultOf("roundtrip", <<>>),
                           timetable_file |-> "roundtrip"])}
    /\ ai = AiFresh

PageNext ==
    \/ \E s \in SectionInputs : setSectionInput(s)
    \/ \E f \in PageFiles : handleFileChange(f)
    \/ LoadAllSections
    \/ \E sec \in Range(home.data.sectionData) : handleSectionClick(sec)
    \/ handleReset
    \/ \E q \in home.requests : ResponseOk(q)
    \/ \E q \in home.requests : ResponseNotOk(q)
    \/ \E q \in home.requests : FetchThrows(q)

PageSpec == PageInit /\ [][PageNext]_vars

(***************************************************************************)
(* parseLectureCellsAI: a call with up to MaxCells cells and every reply   *)
(* of the inference service.                                               *)
(***************************************************************************)
\* lines 13-14 and 37: the call; with no cell it returns at once
parseLectureCellsAI(cells) ==
    /\ ai.pc = "idle"
    /\ ai' = IF Len(cells) = 0
             THEN [ai EXCEPT !.pc = "returned", !.cells = cells,
                             !.returned = [array |-> TRUE, items |-> <<>>]]
             ELSE [ai EXCEPT !.pc = "awaiting", !.cells = cells, !.posted = TRUE]
    /\ UNCHANGED <<pc, file, sectionFilter, workbook, sampleCells, sheetIdx,
                   allStrategyResults, bestResult, unique, filtered, sectionsList,
                   sectionData, hf, aiAnalysis, response, re, HF_TOKEN, nReq, home>>

\* lines 48-58: the request ends and the function returns
AiRequestEnds(reply) ==
    /\ ai.pc = "awaiting"
    /\ ai' = [ai EXCEPT !.pc = "returned", !.reply = reply,
                        !.returned = AiContinue(ai.cells, reply)]
    /\ UNCHANGED <<pc, file, sectionFilter, workbook, sampleCells, sheetIdx,
                   allStrategyResults, bestResult, unique, filtered, sectionsList,
                   sectionData, hf, aiAnalysis, response, re, HF_TOKEN, nReq, home>>

AiInit == Init

AiNext ==
    \/ \E cells \in AiCells : parseLectureCellsAI(cells)
    \/ \E reply \in ServiceReplies : AiRequestEnds(reply)

AiSpec == AiInit /\ [][AiNext]_vars

(***************************************************************************)
(* Properties                                                              *)
(***************************************************************************)
\* the entries of a section data record, and the entries a request has emitted
EntriesOf(data) == UNION {Range(data[sec].entries) : sec \in DOMAIN data}
Emitted ==
    UNION {Range(allStrategyResults[i].entries) : i \in DOMAIN allStrategyResults}
    \cup Range(bestResult.entries) \cup Range(unique) \cup Range(filtered)
    \cup EntriesOf(sectionData)
    \cup (IF response.status = 200 THEN EntriesOf(response.body.sectionData) ELSE {})

\* C1: every Lecture Entry a strategy produced, and every entry of the
\* response, merged or not, has a confidence between 0 and 1 (0 and 1000
\* thousandths); so has every cell of a grid
C1_ConfidenceBounds ==
    /\ \A e \in Emitted : 0 <= e.confidence /\ e.confidence <= 1000
    /\ \A sec \in DOMAIN sectionData :
         \A t \in DOMAIN sectionData[sec].grid : \A d \in DOMAIN sectionData[sec].grid[t] :
            /\ 0 <= sectionData[sec].grid[t][d].confidence
            /\ sectionData[sec].grid[t][d].confidence <= 1000

\* a response carries an entry with both fallback penalties applied
C1_Witness ==
    /\ response.status = 200
    /\ \E e \in EntriesOf(response.body.sectionData) :
          e.confidence = 0 /\ e.subject = <<"U","n","k","n","o","w","n"," ","S","u","b","j","e","c","t">> /\ e.teacher = <<"U","n","k","n","o","w","n"," ","T","e","a","c","h","e","r">>

C3_SectionExplosion ==
    \A n \in DOMAIN allStrategyResults :
        (Len(workbook.sheets) = 1 /\ allStrategyResults[n].strategyName = "room-row") =>
            \A o \in Range(allStrategyResults[n].origins) :
                \E es \in {Pick(allStrategyResults[n].entries,
                                {i \in DOMAIN allStrategyResults[n].entries :
                                    allStrategyResults[n].origins[i] = o})} :
                \E codes \in {Distinct(MatchAllSections(
                                 getMergedCellValue(workbook.sheets[1], o[1], o[2]), 0))} :
                    /\ Len(es) = Len(codes)
                    /\ \A i \in DOMAIN es : es[i] = [es[1] EXCEPT !.section = codes[i]]

\* the entries of section sec before the merge, in the order of filtered
BeforeMerge(sec) == Pick(filtered, {i \in DOMAIN filtered : filtered[i].section = sec})

\* C4: when a section's two entries A and B agree in day, subject, teacher
\* and room and A ends when B starts, the merge leaves exactly one entry,
\* from A's start to B's end, labelled with the two; otherwise both remain
\* unchanged
C4_MergeCorrectness ==
    pc = "diagnostic" =>
        \A sec \in DOMAIN sectionData :
            \E ab \in {BeforeMerge(sec)} : \E merged \in {sectionData[sec].entries} :
                Len(ab) = 2 =>
                    IF /\ ab[1].day = ab[2].day
                       /\ ab[1].subject = ab[2].subject
                       /\ ab[1].teacher = ab[2].teacher
                       /\ ab[1].room = ab[2].room
                       /\ ab[1].endTime = ab[2].startTime
                    THEN /\ Len(merged) = 1
                         /\ merged[1].startTime = ab[1].startTime
                         /\ merged[1].endTime = ab[2].endTime
                         /\ merged[1].time = ab[1].startTime \o <<" ", EnDash, " ">> \o ab[2].endTime
                         /\ \A k \in {"day", "subject", "teacher", "room", "section"} :
                               merged[1][k] = ab[1][k]
                    ELSE merged = ab

\* 8:00 AM to 9:30 AM and 9:30 AM to 11:00 AM of one class became one entry
C4_Witness ==
    /\ pc = "diagnostic"
    /\ \E sec \in DOMAIN sectionData :
          /\ Len(BeforeMerge(sec)) = 2
          /\ Len(sectionData[sec].entries) = 1
          /\ sectionData[sec].entries[1].startTime = <<"8",":","0","0"," ","A","M">>
          /\ sectionData[sec].entries[1].endTime = <<"1","1",":","0","0"," ","A","M">>

\* the start times of the pool in minutes since midnight, and Monday = 0 .. Sunday = 6
PoolMinutes(t) ==
    CASE t = <<"8",":","0","0"," ","A","M">> -> 480 [] t = <<"9",":","3","0"," ","A","M">> -> 570 [] t = <<"1","1",":","0","0"," ","A","M">> -> 660
      [] t = <<"1","2",":","3","0"," ","P","M">> -> 750
Weekday(d) == (CHOOSE i \in DOMAIN DAY_NAMES : DAY_NAMES[i] = d) - 1

\* C5: in every section's final sequence the weekday never decreases from
\* an entry to the next, and within a weekday the start time, in minutes
\* since midnight, never decreases
C5_SortMonotonicity ==
    pc = "diagnostic" =>
        \A sec \in DOMAIN sectionData :
            \A i \in 1..(Len(sectionData[sec].entries) - 1) :
                \E a \in {sectionData[sec].entries[i]} : \E b \in {sectionData[sec].entries[i + 1]} :
                    /\ Weekday(a.day) <= Weekday(b.day)
                    /\ Weekday(a.day) = Weekday(b.day) =>
                          PoolMinutes(a.startTime) <= PoolMinutes(b.startTime)

\* a section ends with two entries or more that the selected result held in another order
C5_Witness ==
    /\ pc = "diagnostic"
    /\ unique # Deduplicate(bestResult.entries)
    /\ \E sec \in DOMAIN sectionData : Len(sectionData[sec].entries) >= 2

\* the indices of the first occurrences of the keys of entries
FirstOccurrences(entries) ==
    {i \in DOMAIN entries :
        \A j \in 1..(i - 1) :
            <<entries[j].section, entries[j].day, entries[j].startTime,
              entries[j].subject, entries[j].teacher, entries[j].room>>
            # <<entries[i].section, entries[i].day, entries[i].startTime,
                entries[i].subject, entries[i].teacher, entries[i].room>>}

\* C6: deduplication keeps exactly the first occurrence of each key
\* section|day|startTime|subject|teacher|room, in the original order; no two
\* entries it returns share a key, and applied to its own output it returns it
C6_Deduplication ==
    /\ pc \notin {"sheets", "dedup"} => FirstOccurrences(unique) = DOMAIN unique
    /\ pc = "sort" =>
          /\ Len(unique) = Cardinality(FirstOccurrences(bestResult.entries))
          /\ \A p \in DOMAIN unique :
                unique[p] = bestResult.entries[
                    CHOOSE i \in FirstOccurrences(bestResult.entries) :
                        Cardinality({k \in FirstOccurrences(bestResult.entries) : k <= i}) = p]
          /\ Deduplicate(unique) = unique

\* a repeated key was dropped and two entries or more were kept
C6_Witness ==
    /\ pc = "sort"
    /\ Len(unique) < Len(bestResult.entries)
    /\ Len(unique) >= 2

\* C7: the selected result has the largest entry count of all the results
\* collected and, among those with that count, the highest average
\* confidence, in whatever order they were produced
C7_Arbitration ==
    pc # "sheets" =>
        /\ \A n \in DOMAIN allStrategyResults : \E r \in {allStrategyResults[n]} :
              /\ Len(r.entries) <= Len(bestResult.entries)
              /\ Len(r.entries) = Len(bestResult.entries) =>
                    r.avgConfidence.num * bestResult.avgConfidence.den
                        <= bestResult.avgConfidence.num * r.avgConfidence.den
        /\ (\E n \in DOMAIN allStrategyResults : Len(allStrategyResults[n].entries) > 0) =>
              \E n \in DOMAIN allStrategyResults : allStrategyResults[n] = bestResult

\* of two results with equal counts the later, more confident one was selected
C7_Witness ==
    /\ pc = "dedup"
    /\ \E m, n \in DOMAIN allStrategyResults :
          /\ m < n
          /\ Len(allStrategyResults[m].entries) = Len(allStrategyResults[n].entries)
          /\ AvgGreater(allStrategyResults[n].avgConfidence, allStrategyResults[m].avgConfidence)
          /\ bestResult = allStrategyResults[n]

\* C8: availableSections of a response is the sorted sequence of all the
\* section codes found in the workbook, on every sheet, with or without a
\* section filter.  The codes found on a sheet are taken to be those of the
\* result arbitration selects among the four results of that sheet.
C8_AvailableSections ==
    response.status = 200 =>
        /\ Range(response.body.availableSections)
             = {e.section : e \in UNION {Range(Arbitrate(SubSeq(allStrategyResults,
                                                                4 * k - 3, 4 * k),
                                                         1, NoResult).entries) :
                                            k \in 1..(Len(allStrategyResults) \div 4)}}
        /\ \A i \in 1..(Len(response.body.availableSections) - 1) :
              StrCmp(response.body.availableSections[i],
                     response.body.availableSections[i + 1]) < 0

\* C9: with a section value F (trimmed and upper-cased) the response has no
\* key other than F, only entries of F under it, and totalEntries counts the
\* deduplicated entries of F; without one, every deduplicated entry is kept
\* and every section that has an entry has a key
C9_SectionFilter ==
    /\ sectionFilter \in {toUpperCase(trim(IF f = NoField THEN <<>> ELSE f)) : f \in SectionFields}
    /\ response.status = 200 =>
         IF sectionFilter # <<>>
         THEN /\ DOMAIN response.body.sectionData \subseteq {sectionFilter}
              /\ \A e \in EntriesOf(response.body.sectionData) : e.section = sectionFilter
              /\ response.body.totalEntries
                   = Cardinality({i \in DOMAIN unique : unique[i].section = sectionFilter})
              /\ response.body.totalEntries > 0 =>
                     sectionFilter \in DOMAIN response.body.sectionData
         ELSE /\ filtered = unique
              /\ response.body.totalEntries = Len(unique)
              /\ DOMAIN response.body.sectionData = {e.section : e \in Range(unique)}

\* a lower-case, padded section value selects its section out of two
C9_Witness ==
    /\ response.status = 200
    /\ sectionFilter = <<"B","S","A","I","-","7","A">>
    /\ response.body.totalEntries = 1
    /\ Len(unique) = 2
    /\ DOMAIN response.body.sectionData = {<<"B","S","A","I","-","7","A">>}

\* C10: a request without the file field is answered with status 400 and an
\* error message, and nothing else is done for it: no workbook is read, no
\* strategy runs, the diagnostic collaborator is not called
C10_MissingFile ==
    /\ (file = NoField /\ nReq > 0) =>
          /\ pc \in {"received", "done"}
          /\ ~workbook.read
          /\ sheetIdx = 0
          /\ allStrategyResults = <<>>
          /\ hf = "idle"
          /\ response.status \in {0, 400}
    /\ (file = NoField /\ pc = "done") =>
          /\ response.status = 400
          /\ response.body.error # ""
    /\ response.status = 400 => file = NoField

\* the second request lacks the file and is answered 400
C10_Witness ==
    /\ nReq = 2 /\ file = NoField /\ pc = "done" /\ response.status = 400

\* C11: a request whose strategies found no entry, or whose entries all
\* belong to other sections than the requested one, is still answered with
\* a success: no error field, an empty sectionData and totalEntries = 0; and
\* no section of any response has a key with zero entries under it
C11_ExtractionShortfall ==
    response.status = 200 =>
        /\ ((\A n \in DOMAIN allStrategyResults : allStrategyResults[n].entries = <<>>)
             \/ (sectionFilter # <<>>
                   /\ \A e \in Range(bestResult.entries) : e.section # sectionFilter)) =>
               /\ "error" \notin DOMAIN response.body
               /\ response.body.success
               /\ DOMAIN response.body.sectionData = {}
               /\ response.body.totalEntries = 0
        /\ \A sec \in DOMAIN response.body.sectionData :
               response.body.sectionData[sec].entries # <<>>

\* a workbook with entries is asked for a section none of them belongs to
C11_Witness ==
    /\ response.status = 200
    /\ sectionFilter # <<>>
    /\ bestResult.entries # <<>>
    /\ response.body.availableSections # <<>>
    /\ response.body.totalEntries = 0

\* C12: the diagnostic collaborator neither changes the extracted data nor
\* fails the request: sectionData, availableSections, totalEntries and
\* bestStrategy of a response are those the strategy results and the filter
\* determine, whatever the diagnostic did; a request whose workbook was read
\* ends in a success; the diagnostic text is null unless the call succeeded,
\* and without a token no call is made
C12_DiagnosticIsolation ==
    /\ response.status = 200 =>
         \E best \in {Arbitrate(allStrategyResults, 1, NoResult)} :
         \E u \in {SortEntries(Deduplicate(best.entries))} :
            /\ response.body.sectionData
                 = BuildSectionData(FilterBySection(u, sectionFilter), SectionsList(u), sectionFilter)
            /\ response.body.availableSections = SectionsList(u)
            /\ response.body.totalEntries = Len(FilterBySection(u, sectionFilter))
            /\ response.body.bestStrategy = best.strategyName
            /\ response.body.success
            /\ response.body.aiAnalysis = (IF hf = "answer" THEN "report" ELSE "null")
    /\ (pc = "done" /\ workbook.read) => response.status = 200
    /\ ~HF_TOKEN => hf = "idle"
    /\ hf \in {"idle", "pending", "answer"} \cup {"status", "empty", "throws"}

\* a request with entries is answered although the diagnostic call threw
C12_Witness ==
    /\ response.status = 200
    /\ hf = "throws"
    /\ response.body.aiAnalysis = "null"
    /\ response.body.totalEntries > 0

\* C13: the diagnostic call is time-bounded: once extraction has finished
\* (the handler stands before the diagnostic), the request is eventually
\* answered with the extracted data, even if the service never answers
C13_DiagnosticBounded ==
    (pc = "diagnostic") ~> (pc = "done" /\ response.status = 200)

\* C14: a request ends in exactly one response, sent at its end: either the
\* complete success payload, built after every sheet was parsed, or an error
\* response that carries an error message and nothing else; an unreadable
\* workbook is answered with the error before any strategy has run
C14_AtomicOutcome ==
    /\ (response.status # 0) = (pc = "done")
    /\ response.status \in {0, 200, 400, 500}
    /\ response.status = 200 =>
          /\ DOMAIN response.body = {"success", "section", "sectionData", "availableSections",
                                     "totalEntries", "bestStrategy", "avgConfidence", "aiAnalysis"}
          /\ response.body.success
          /\ workbook.read
          /\ sheetIdx = Len(workbook.sheets) + 1
          /\ Len(allStrategyResults)
               = 4 * Cardinality({i \in DOMAIN workbook.sheets : workbook.sheets[i].hasRef})
          /\ response.body.sectionData = sectionData
          /\ response.body.availableSections = sectionsList
          /\ response.body.totalEntries = Len(filtered)
    /\ response.status \in {400, 500} =>
          /\ DOMAIN response.body = {"error"}
          /\ response.body.error # ""
    /\ (file \in Unreadable /\ nReq > 0) =>
          /\ pc \in {"received", "done"}
          /\ allStrategyResults = <<>>
          /\ sheetIdx = 0
          /\ pc = "done" => response.status = 500

\* an unreadable workbook was answered with the error response
C14_Witness ==
    /\ file \in Unreadable
    /\ pc = "done"
    /\ response.status = 500
    /\ allStrategyResults = <<>>

\* the addresses a strategy may resolve on a sheet: its range and the
\* neighbours parseCell looks at around it
Addresses(sh) == ((sh.s[1] - 1)..(sh.e[1] + 1)) \X ((sh.s[2] - 1)..(sh.e[2] + 1))
InRegion(m, a) == m.s[1] <= a[1] /\ a[1] <= m.e[1] /\ m.s[2] <= a[2] /\ a[2] <= m.e[2]

\* C15: on every sheet of the workbook, an address inside a merged region
\* resolves to the text of the region's origin cell, an address outside
\* every region to the text of its own cell, an address without a cell to
\* the empty text; and the sheets stay as they were read while the
\* strategies resolve cells on them
C15_CellResolver ==
    workbook.read =>
        /\ workbook.sheets = Workbook(file)
        /\ \A n \in DOMAIN workbook.sheets : \E sh \in {workbook.sheets[n]} :
             \A a \in Addresses(sh) :
                \E own \in {IF a \in DOMAIN sh.cells THEN trim(sh.cells[a]) ELSE <<>>} :
                   /\ \A k \in DOMAIN sh.merges :
                         InRegion(sh.merges[k], a) =>
                            getMergedCellValue(sh, a[1], a[2])
                              = (IF sh.merges[k].s \in DOMAIN sh.cells
                                 THEN trim(sh.cells[sh.merges[k].s]) ELSE <<>>)
                   /\ (\A k \in DOMAIN sh.merges : ~InRegion(sh.merges[k], a)) =>
                         getMergedCellValue(sh, a[1], a[2]) = own

\* the strategies ran on a sheet where a cell with a text of its own lies
\* inside a region and resolves to the origin's different text
C15_Witness ==
    /\ workbook.read
    /\ allStrategyResults # <<>>
    /\ \E sh \in {workbook.sheets[1]} : \E k \in DOMAIN sh.merges :
       \E a \in DOMAIN sh.cells :
          /\ InRegion(sh.merges[k], a)
          /\ a # sh.merges[k].s
          /\ getMergedCellValue(sh, a[1], a[2]) # trim(sh.cells[a])
          /\ getMergedCellValue(sh, a[1], a[2]) = trim(sh.cells[sh.merges[k].s])

\* a canonical section code: BS, 2 to 4 upper-case letters, "-", 1 or 2
\* digits and at most one upper-case letter; a time in 12-hour form
IsSectionCode(t) ==
    \E k \in 2..4, d \in 1..2, l \in 0..1 :
        /\ Len(t) = 2 + k + 1 + d + l
        /\ t[1] = "B" /\ t[2] = "S"
        /\ \A i \in 3..(2 + k) : t[i] \in Range(UpperAZ)
        /\ t[3 + k] = "-"
        /\ \A i \in (4 + k)..(3 + k + d) : t[i] \in DigitSet
        /\ l = 1 => t[Len(t)] \in Range(UpperAZ)
Is12Hour(t) ==
    \E h \in 1..12, m \in 0..59, half \in {<<"A","M">>, <<"P","M">>} :
        t = NumToStr(h) \o <<":">> \o PadStart2(m) \o <<" ">> \o half

\* C16: every Lecture Entry a strategy produced or a response carries has a
\* canonical upper-case section code, one of the seven weekday names as its
\* day, and start and end times in 12-hour form
C16_CanonicalFields ==
    \A e \in Emitted :
        /\ IsSectionCode(e.section)
        /\ e.day \in Range(DAY_NAMES)
        /\ Is12Hour(e.startTime)
        /\ Is12Hour(e.endTime)

\* the sheets the strategies ran on, in order: results 4k-3 .. 4k are those
\* of the k-th of them
ParsedSheets == Pick(workbook.sheets, {i \in DOMAIN workbook.sheets : workbook.sheets[i].hasRef})

\* entry e, pushed by strategy name for the cell at o of sheet sh, has a
\* field that was not read from that cell: its subject or its teacher is
\* not in the cell's text, or its room is the default
InferredField(sh, name, o, e) ==
    \/ includes(e.room, <<"U","n","k","n","o","w","n"," ","R","o","o","m">>)
    \/ /\ name # "column-based"
       /\ \/ ~includes(getMergedCellValue(sh, o[1], o[2]), e.subject)
          \/ ~includes(getMergedCellValue(sh, o[1], o[2]), e.teacher)

\* the entries of before that a merged entry a spans
MergedInto(a, before) ==
    {b \in Range(before) :
        /\ sameClass(a, b)
        /\ time12ToMinutes(a.startTime) <= time12ToMinutes(b.startTime)
        /\ time12ToMinutes(b.endTime) <= time12ToMinutes(a.endTime)}

\* C17: confidence starts at 1.0 and only goes down, and only for inferred
\* fields: an entry a strategy pushed has less than 1.0 only if its subject,
\* teacher or room was not read directly; dedup, sort and filter hand the
\* entries on as they are; and an entry of the consecutive-merge carries the
\* least of the confidences of the entries merged into it
C17_ConfidenceMonotone ==
    /\ \A n \in DOMAIN allStrategyResults : \E res \in {allStrategyResults[n]} :
          \A i \in DOMAIN res.entries :
             /\ res.entries[i].confidence <= 1000
             /\ res.entries[i].confidence < 1000 =>
                   InferredField(ParsedSheets[(n - 1) \div 4 + 1], res.strategyName,
                                 res.origins[i], res.entries[i])
    /\ Range(unique) \subseteq Range(bestResult.entries)
    /\ Range(filtered) \subseteq Range(unique)
    /\ \A sec \in DOMAIN sectionData : \A a \in Range(sectionData[sec].entries) :
          /\ MergedInto(a, BeforeMerge(sec)) # {}
          /\ a.confidence = MinOf({b.confidence : b \in MergedInto(a, BeforeMerge(sec))})

\* a teacher inferred from the cell below cost the second lecture 0.2, and
\* the entry merged from the two lectures carries the lower confidence
C17_Witness ==
    /\ response.status = 200
    /\ \E sec \in DOMAIN sectionData : \E a \in Range(sectionData[sec].entries) :
          /\ a.confidence = 800
          /\ {b.confidence : b \in MergedInto(a, BeforeMerge(sec))} = {1000, 800}

\* the lines of a cell that can give its subject and its teacher: parseCell
\* passes over skippable lines, lines with a section code and time slots
CandidateLines(cell) ==
    Pick(SplitLines(cell),
         {i \in DOMAIN SplitLines(cell) :
             \E line \in {SplitLines(cell)[i]} :
                /\ ~isSkippable(line)
                /\ MatchAllSections(line, 0) = <<>>
                /\ ~isLikelyTimeSlot(line)})
TitledLines(cell) ==
    Pick(CandidateLines(cell),
         {i \in DOMAIN CandidateLines(cell) : IsTeacherLine(CandidateLines(cell)[i])})
SubjectLines(cell) ==
    Pick(CandidateLines(cell),
         {i \in DOMAIN CandidateLines(cell) :
             ~IsTeacherLine(CandidateLines(cell)[i]) /\ Len(CandidateLines(cell)[i]) > 1})
Qualifies(v) == v # <<>> /\ ~isLikelyRoom(v) /\ ~isLikelyTimeSlot(v) /\ ~isSkippable(v)
Titled(v) == v # <<>> /\ IsTeacherLine(v)

\* the subject and the penalty s, the teacher and the penalty t that the
\* claim gives a cell with the neighbours left, above, right and below
ExpectedSubject(cell, left, above) ==
    IF SubjectLines(cell) # <<>> THEN <<SubjectLines(cell)[1], 0>>
    ELSE IF Qualifies(left) THEN <<left, 250>>
    ELSE IF Qualifies(above) THEN <<above, 250>>
    ELSE <<<<"U","n","k","n","o","w","n"," ","S","u","b","j","e","c","t">>, 500>>
ExpectedTeacher(cell, right, below) ==
    IF TitledLines(cell) # <<>> THEN <<TitledLines(cell)[1], 0>>
    ELSE IF Titled(right) THEN <<right, 200>>
    ELSE IF Titled(below) THEN <<below, 200>>
    ELSE <<<<"U","n","k","n","o","w","n"," ","T","e","a","c","h","e","r">>, 500>>

\* C18: the entry the room-row strategy pushes for the lecture cell carries
\* parseCell's subject, teacher and confidence: the confidence is 1.0 - s - t,
\* s being 0 for a subject from the cell's own lines, 0.25 for one from the
\* left neighbour or, when that does not qualify, from the one above, 0.5 for
\* the default; t being 0 for the first titled line of the cell, 0.2 for a
\* titled right neighbour or else a titled one below, 0.5 for the default
C18_ParseCellConfidence ==
    \A n \in DOMAIN allStrategyResults : \E res \in {allStrategyResults[n]} :
        res.strategyName = "room-row" =>
            \E sh \in {workbook.sheets[1]} :
            \E s \in {ExpectedSubject(getMergedCellValue(sh, CellAt[1], CellAt[2]),
                                      getMergedCellValue(sh, CellAt[1], CellAt[2] - 1),
                                      getMergedCellValue(sh, CellAt[1] - 1, CellAt[2]))} :
            \E t \in {ExpectedTeacher(getMergedCellValue(sh, CellAt[1], CellAt[2]),
                                      getMergedCellValue(sh, CellAt[1], CellAt[2] + 1),
                                      getMergedCellValue(sh, CellAt[1] + 1, CellAt[2]))} :
                \A i \in DOMAIN res.entries :
                   res.origins[i] = CellAt =>
                      /\ res.entries[i].subject = s[1]
                      /\ res.entries[i].teacher = t[1]
                      /\ res.entries[i].confidence = 1000 - s[2] - t[2]

\* a cell without subject and teacher took the subject from above, the left
\* neighbour being a room, and the teacher from below, the right neighbour
\* having no title: 1.0 - 0.25 - 0.2
C18_Witness ==
    /\ allStrategyResults # <<>>
    /\ \E sh \in {workbook.sheets[1]} :
          /\ getMergedCellValue(sh, CellAt[1], CellAt[2]) = T_Bare
          /\ getMergedCellValue(sh, CellAt[1], CellAt[2] - 1) = <<"R","o","o","m"," ","0","7">>
          /\ getMergedCellValue(sh, CellAt[1] - 1, CellAt[2]) = <<"P","h","y","s","i","c","s">>
          /\ getMergedCellValue(sh, CellAt[1], CellAt[2] + 1) = <<"A","l","g","e","b","r","a">>
          /\ getMergedCellValue(sh, CellAt[1] + 1, CellAt[2]) = <<"M","r","."," ","A","l","i">>
    /\ \E i \in DOMAIN allStrategyResults[1].entries :
          /\ allStrategyResults[1].origins[i] = CellAt
          /\ allStrategyResults[1].entries[i].confidence = 550

\* the Parse Result of the k-th strategy on sheet sh when nothing ran before
\* it: the shared patterns are as the module defines them, lastIndex 0
StrategyAlone(sh, k) ==
    (CASE k = 1 -> parseRoomRowLayout(sh, [s |-> 0, c |-> 0])
       [] k = 2 -> parseColumnBasedDays(sh, [s |-> 0, c |-> 0])
       [] k = 3 -> parsePerSheetSections(sh, sh.name, [s |-> 0, c |-> 0])
       [] k = 4 -> parseBruteForce(sh, [s |-> 0, c |-> 0])).result

\* C19: the strategies are pure and order-independent: each Parse Result
\* collected for a sheet is the one its strategy gives on that sheet alone,
\* whatever cells, strategies, sheets or requests were processed before, and
\* the shared section patterns carry no match position from one invocation
\* into the next
C19_OrderIndependence ==
    /\ \A n \in DOMAIN allStrategyResults :
          allStrategyResults[n]
            = StrategyAlone(ParsedSheets[(n - 1) \div 4 + 1], ((n - 1) % 4) + 1)
    /\ pc \in {"idle", "done"} => re = [s |-> 0, c |-> 0]

\* the day marker of row r (the first of its first four cells that names a
\* day, "" when none does), and whether row r is a time-header row
DayMarker(sh, r) ==
    IF \E c \in 0..Min(3, sh.e[2]) : normalizeDayName(getMergedCellValue(sh, r, c)) # ""
    THEN normalizeDayName(getMergedCellValue(sh, r,
             MinOf({c \in 0..Min(3, sh.e[2]) :
                       normalizeDayName(getMergedCellValue(sh, r, c)) # ""})))
    ELSE ""
IsTimeHeader(sh, r) == Len(RowTimes(sh, r, 0)) >= 2

\* what the scan sees of each row of sh: <<row, day marker, time slots>>
RowFacts(sh) == {<<r, DayMarker(sh, r), RowTimes(sh, r, 0)>> : r \in sh.s[1]..sh.e[1]}

\* C20: every entry of the room-row result was pushed for a cell of a row
\* that is no time-header row and has a day marker at or above it and a
\* time-header row (at least 2 recognized time slots) above it; the entry's
\* day is that of the nearest day marker at or above, and its times are the
\* slot that the nearest time-header row above asserts in the cell's column,
\* so a time-header row emits nothing and is in force until the next one
C20_RoomRowGating ==
    \A n \in DOMAIN allStrategyResults : \E res \in {allStrategyResults[n]} :
        res.strategyName = "room-row" =>
            \E facts \in {RowFacts(ParsedSheets[(n - 1) \div 4 + 1])} :
            \A i \in DOMAIN res.entries :
                \E r \in {res.origins[i][1]}, c \in {res.origins[i][2]} :
                    /\ \A f \in facts : f[1] = r => Len(f[3]) < 2
                    /\ \E d \in facts :
                          /\ d[1] <= r
                          /\ d[2] # ""
                          /\ \A f \in facts : (d[1] < f[1] /\ f[1] <= r) => f[2] = ""
                          /\ res.entries[i].day = d[2]
                    /\ \E h \in facts :
                          /\ h[1] < r
                          /\ Len(h[3]) >= 2
                          /\ \A f \in facts : (h[1] < f[1] /\ f[1] <= r) => Len(f[3]) < 2
                          /\ \E k \in DOMAIN h[3] :
                                /\ h[3][k].col = c
                                /\ h[3][k].start12 = res.entries[i].startTime
                                /\ h[3][k].end12 = res.entries[i].endTime

\* a Monday row with lectures lies above the time-header row: nothing was
\* pushed for it, and the entries are those of the row below the header
C20_Witness ==
    /\ file = "rows"
    /\ allStrategyResults # <<>>
    /\ \E sh \in {workbook.sheets[1]} :
          /\ ~IsTimeHeader(sh, 0) /\ DayMarker(sh, 0) = "Monday"
          /\ getMergedCellValue(sh, 0, 2) = T_DataStructures
          /\ IsTimeHeader(sh, 1)
    /\ \E res \in {allStrategyResults[1]} :
          /\ res.entries # <<>>
          /\ \A i \in DOMAIN res.entries : res.origins[i][1] = 2


\* the room of row r as the scan reads it: the first of its first four
\* cells that is room-like, normalized; <<>> when none is
RoomMarker(sh, r) ==
    IF \E c \in 0..Min(3, sh.e[2]) :
          getMergedCellValue(sh, r, c) # <<>> /\ isLikelyRoom(getMergedCellValue(sh, r, c))
    THEN normalizeRoomName(getMergedCellValue(sh, r,
             MinOf({c \in 0..Min(3, sh.e[2]) :
                       /\ getMergedCellValue(sh, r, c) # <<>>
                       /\ isLikelyRoom(getMergedCellValue(sh, r, c))})))
    ELSE <<>>

\* <<row, day marker, time slots, room>> of each row of sh
RoomFacts(sh) ==
    {<<r, DayMarker(sh, r), RowTimes(sh, r, 0), RoomMarker(sh, r)>> : r \in sh.s[1]..sh.e[1]}

\* C21: an entry the room-row strategy pushed for the cell at row r, column
\* c has the day of the nearest day marker at or above r (rows in between
\* that hold no day marker leave it alone), the start and end of the slot
\* that the nearest time-header row above r holds at column c (rows in
\* between with fewer than 2 slots leave the header alone), and as room the
\* normalized first room-like value of the first four cells of row r; a row
\* without such a value has no entry
C21_RoomRowAttribution ==
    \A n \in DOMAIN allStrategyResults : \E res \in {allStrategyResults[n]} :
        res.strategyName = "room-row" =>
            \E facts \in {RoomFacts(ParsedSheets[(n - 1) \div 4 + 1])} :
            \A i \in DOMAIN res.entries :
                \E r \in {res.origins[i][1]}, c \in {res.origins[i][2]} :
                    /\ \E f \in facts :
                          f[1] = r /\ f[4] # <<>> /\ res.entries[i].room = f[4]
                    /\ \E d \in facts :
                          /\ d[1] <= r
                          /\ d[2] # ""
                          /\ \A f \in facts : (d[1] < f[1] /\ f[1] <= r) => f[2] = ""
                          /\ res.entries[i].day = d[2]
                    /\ \E h \in facts :
                          /\ h[1] < r
                          /\ Len(h[3]) >= 2
                          /\ \A f \in facts : (h[1] < f[1] /\ f[1] <= r) => Len(f[3]) < 2
                          /\ \E k \in DOMAIN h[3] :
                                /\ h[3][k].col = c
                                /\ res.entries[i].startTime = h[3][k].start12
                                /\ res.entries[i].endTime = h[3][k].end12

\* under a header row, a Tuesday row holds a lecture but no room and the row
\* below it holds a room and a lecture but no day: the only entries are
\* those of the last row, on Tuesday in Room #06
C21_Witness ==
    /\ file = "rows"
    /\ allStrategyResults # <<>>
    /\ \E sh \in {workbook.sheets[1]} :
          /\ IsTimeHeader(sh, 0)
          /\ DayMarker(sh, 1) = "Tuesday" /\ RoomMarker(sh, 1) = <<>>
          /\ getMergedCellValue(sh, 1, 2) = T_AI
          /\ DayMarker(sh, 2) = "" /\ RoomMarker(sh, 2) = <<"R","o","o","m"," ","#","0","6">>
    /\ \E res \in {allStrategyResults[1]} :
          /\ res.entries # <<>>
          /\ \A i \in DOMAIN res.entries :
                /\ res.origins[i][1] = 2
                /\ res.entries[i].day = "Tuesday"
                /\ res.entries[i].room = <<"R","o","o","m"," ","#","0","6">>


\* the 12-hour text of the 24-hour time h:m
Canon12(h, m) ==
    NumToStr(((h + 11) % 12) + 1) \o <<":">> \o PadStart2(m) \o <<" ">>
    \o (IF h < 12 THEN <<"A","M">> ELSE <<"P","M">>)

\* a raw hour after the rule "raw hours 1 to 7 are afternoon hours"
AfternoonRule(h) == IF 1 <= h /\ h <= 7 THEN h + 12 ELSE h

\* the slots the time cell of the parsed sheet can have been written from
SlotInputs ==
    {x \in SlotHours \X SlotMinutes \X SlotHours \X SlotMinutes \X BOOLEAN :
        \E sh \in {workbook.sheets[1]} :
            getMergedCellValue(sh, 1, 4) = SlotText(x[1], x[2], x[3], x[4], x[5])}

\* C22: for a time cell written from the raw hours h1, h2 and minutes m1,
\* m2, the normalizer adds 12 to a raw hour exactly when it is 1 to 7;
\* when a resulting hour is above 23 or a minute above 59 the slot is
\* rejected (the row has no entry), and otherwise both ends are the 12-hour
\* texts of the resulting 24-hour times
C22_HourRule ==
    (file = "slot" /\ allStrategyResults # <<>>) =>
        \A x \in SlotInputs :
            \E res \in {allStrategyResults[2]}, a1 \in {AfternoonRule(x[1])},
               a2 \in {AfternoonRule(x[3])} :
                /\ res.strategyName = "column-based"
                /\ IF a1 > 23 \/ a2 > 23 \/ x[2] > 59 \/ x[4] > 59
                   THEN res.entries = <<>>
                   ELSE /\ Len(res.entries) = 1
                        /\ res.entries[1].startTime = Canon12(a1, x[2])
                        /\ res.entries[1].endTime = Canon12(a2, x[4])

\* the same with the rule of the code, "h <= 7": not a claim of the
\* specification, kept to show that hour 0 is the only divergence
SlotRuleOfCode ==
    (file = "slot" /\ allStrategyResults # <<>>) =>
        \A x \in SlotInputs :
            \E res \in {allStrategyResults[2]},
               a1 \in {IF x[1] <= 7 THEN x[1] + 12 ELSE x[1]},
               a2 \in {IF x[3] <= 7 THEN x[3] + 12 ELSE x[3]} :
                IF a1 > 23 \/ a2 > 23 \/ x[2] > 59 \/ x[4] > 59
                THEN res.entries = <<>>
                ELSE /\ Len(res.entries) = 1
                     /\ res.entries[1].startTime = Canon12(a1, x[2])
                     /\ res.entries[1].endTime = Canon12(a2, x[4])


\* the columns of row r whose text holds the keyword of key k, and the
\* columns that hold any keyword
KeywordColumns(sh, r, k) ==
    {c \in sh.s[2]..sh.e[2] : k \in HeaderKeys(trim(toLowerCase(getMergedCellValue(sh, r, c))))}
AnyKeywordColumns(sh, r) ==
    {c \in sh.s[2]..sh.e[2] : HeaderKeys(trim(toLowerCase(getMergedCellValue(sh, r, c)))) # {}}

\* the rows among the first 15 that hold at least 4 keyword columns
HeaderRows(sh) ==
    {r \in sh.s[1]..Min(sh.s[1] + 14, sh.e[1]) : Cardinality(AnyKeywordColumns(sh, r)) >= 4}

\* the cell of row r in the column that header row h locates for key k; a
\* key that no cell of the header row holds is read from column 0
Located(sh, h, r, k) ==
    IF KeywordColumns(sh, h, k) = {} THEN getMergedCellValue(sh, r, 0)
    ELSE getMergedCellValue(sh, r, CHOOSE c \in KeywordColumns(sh, h, k) :
                                       \A d \in KeywordColumns(sh, h, k) : d <= c)

\* the entries that the rows from r on yield under header row h, without
\* their room and time label: one for each row whose section, subject,
\* teacher, day and time cells are filled with a recognized day and a valid
\* slot; the room value is missing when the header row locates no room
\* column or the room cell is empty
RECURSIVE LongRows(_, _, _)
LongRows(sh, h, r) ==
    IF r > sh.e[1] THEN <<>>
    ELSE The({IF /\ Located(sh, h, r, "section") # <<>>
                 /\ Located(sh, h, r, "subject") # <<>>
                 /\ Located(sh, h, r, "teacher") # <<>>
                 /\ Located(sh, h, r, "time") # <<>>
                 /\ day # ""
                 /\ norm.ok
              THEN << <<day, norm.start12, norm.end12, Located(sh, h, r, "subject"),
                        Located(sh, h, r, "teacher"), Located(sh, h, r, "section"),
                        IF KeywordColumns(sh, h, "room") = {} \/ Located(sh, h, r, "room") = <<>>
                        THEN 700 ELSE 1000>> >>
              ELSE <<>> :
                 <<day, norm>> \in {<<normalizeDayName(Located(sh, h, r, "day")),
                                      normalizeTimeSlot(Located(sh, h, r, "time"))>>}})
         \o LongRows(sh, h, r + 1)

\* C23: the column-based result holds entries only when a row among the
\* first 15 holds at least 4 keyword columns; then its entries are, in row
\* order, one for every later row whose cells in the columns located for
\* section, subject, teacher, day and time are filled with a recognized day
\* and a valid time slot, each field from its located column, with
\* confidence 1.0, or 0.7 when the room value is missing; no other row has
\* an entry
C23_ColumnBased ==
    (file = "long" /\ allStrategyResults # <<>>) =>
        \E res \in {allStrategyResults[2]}, sh \in {workbook.sheets[1]} :
            /\ res.strategyName = "column-based"
            /\ \E hs \in {HeaderRows(sh)} :
                  [i \in DOMAIN res.entries |->
                      <<res.entries[i].day, res.entries[i].startTime, res.entries[i].endTime,
                        res.entries[i].subject, res.entries[i].teacher,
                        res.entries[i].section, res.entries[i].confidence>>]
                  = IF hs = {} THEN <<>> ELSE LongRows(sh, MinOf(hs), MinOf(hs) + 1)


\* a room was normalized from the text: normalizeRoomName put it into one
\* of its forms, or the text as a whole is a room designation
RoomNormalized(text) == normalizeRoomName(text) # trim(text) \/ isLikelyRoom(text)

\* C24: an entry of the per-sheet result, built from the cell of a time row
\* and a day column, has the cell's disambiguation confidence when a room
\* was normalized from the cell text, and half of it with the room
\* "Unknown Room" otherwise; its section is one of the codes in the cell,
\* or one of those in the sheet name when the cell holds none; a sheet
\* whose name holds no section code has no entries
C24_PerSheetRoom ==
    \A n \in DOMAIN allStrategyResults : \E res \in {allStrategyResults[n]} :
        res.strategyName = "per-sheet" =>
            \E sh \in {ParsedSheets[(n - 1) \div 4 + 1]} :
            \E sheetSections \in {extractAllSections(sh.name, [s |-> 0, c |-> 0])} :
                /\ sheetSections = <<>> => res.entries = <<>>
                /\ \A i \in DOMAIN res.entries :
                      \E cellVal \in {getMergedCellValue(sh, res.origins[i][1], res.origins[i][2])} :
                      \E pr \in {parseCell(cellVal, sh, res.origins[i][1], res.origins[i][2],
                                           [s |-> 0, c |-> 0])} :
                          /\ res.entries[i].section \in
                                Range(IF pr.sections # <<>> THEN pr.sections ELSE sheetSections)
                          /\ IF RoomNormalized(cellVal)
                             THEN /\ res.entries[i].room = normalizeRoomName(cellVal)
                                  /\ res.entries[i].confidence = pr.confidence
                             ELSE /\ res.entries[i].room = <<"U","n","k","n","o","w","n"," ","R","o","o","m">>
                                  /\ res.entries[i].confidence = (pr.confidence * 500) \div 1000

\* C24 without its second case: what the code does for every cell
PerSheetRoomOfCode ==
    \A n \in DOMAIN allStrategyResults : \E res \in {allStrategyResults[n]} :
        res.strategyName = "per-sheet" =>
            \E sh \in {ParsedSheets[(n - 1) \div 4 + 1]} :
            \E sheetSections \in {extractAllSections(sh.name, [s |-> 0, c |-> 0])} :
                /\ sheetSections = <<>> => res.entries = <<>>
                /\ \A i \in DOMAIN res.entries :
                      \E cellVal \in {getMergedCellValue(sh, res.origins[i][1], res.origins[i][2])} :
                      \E pr \in {parseCell(cellVal, sh, res.origins[i][1], res.origins[i][2],
                                           [s |-> 0, c |-> 0])} :
                          /\ res.entries[i].section \in
                                Range(IF pr.sections # <<>> THEN pr.sections ELSE sheetSections)
                          /\ res.entries[i].room = cellVal
                          /\ res.entries[i].confidence = pr.confidence


\* the cells of sh that the scan of parseBruteForce does not pass over,
\* <<r, c, text>>, and the markers it classifies them into: <<r, c, day>>,
\* <<r, c, start12, end12>> and <<r, c, room>>
MarkerCells(sh) ==
    {<<a[1], a[2], getMergedCellValue(sh, a[1], a[2])>> :
        a \in {b \in (sh.s[1]..sh.e[1]) \X (sh.s[2]..sh.e[2]) :
                  /\ getMergedCellValue(sh, b[1], b[2]) # <<>>
                  /\ ~isSkippable(getMergedCellValue(sh, b[1], b[2]))}}
DayMarkers(sh) ==
    {<<a[1], a[2], normalizeDayName(a[3])>> :
        a \in {b \in MarkerCells(sh) : normalizeDayName(b[3]) # ""}}
TimeMarkers(sh) ==
    {<<a[1], a[2], normalizeTimeSlot(a[3]).start12, normalizeTimeSlot(a[3]).end12>> :
        a \in {b \in MarkerCells(sh) : /\ normalizeDayName(b[3]) = ""
                                        /\ isLikelyTimeSlot(b[3])
                                        /\ normalizeTimeSlot(b[3]).ok}}
RoomMarkers(sh) ==
    {<<a[1], a[2], normalizeRoomName(a[3])>> :
        a \in {b \in MarkerCells(sh) : /\ normalizeDayName(b[3]) = ""
                                        /\ ~isLikelyTimeSlot(b[3])
                                        /\ isLikelyRoom(b[3])}}

\* w x row-delta + column-delta between the marker m and the cell (r, c)
Weighted(m, r, c, w) ==
    (IF m[1] < r THEN r - m[1] ELSE m[1] - r) * w + (IF m[2] < c THEN c - m[2] ELSE m[2] - c)

\* C25: an entry the brute-force strategy pushed for the data cell (r, c)
\* has the day of a day marker that minimizes 10 x row-delta + column-delta
\* among the day markers in rows at or above r, the times of a time marker
\* that minimizes 5 x row-delta + column-delta, and the room of a room
\* marker that minimizes 10 x row-delta + column-delta with the cell's
\* confidence; when the sheet has no room marker it has the room "Unknown
\* Room" and half the cell's confidence.  A data cell with no day marker
\* at or above it, or in a sheet with no time marker, has no entry
C25_BruteForceProximity ==
    \A n \in DOMAIN allStrategyResults : \E res \in {allStrategyResults[n]} :
        res.strategyName = "brute-force" =>
            \E sh \in {ParsedSheets[(n - 1) \div 4 + 1]} :
            \E days \in {DayMarkers(sh)}, times \in {TimeMarkers(sh)}, rooms \in {RoomMarkers(sh)} :
            \A i \in DOMAIN res.entries :
                \E r \in {res.origins[i][1]}, c \in {res.origins[i][2]} :
                \E conf \in {parseCell(getMergedCellValue(sh, r, c), sh, r, c,
                                       [s |-> 0, c |-> 0]).confidence} :
                    /\ \E d \in days :
                          /\ d[1] <= r
                          /\ \A e \in days : e[1] <= r => Weighted(d, r, c, 10) <= Weighted(e, r, c, 10)
                          /\ res.entries[i].day = d[3]
                    /\ \E t \in times :
                          /\ \A e \in times : Weighted(t, r, c, 5) <= Weighted(e, r, c, 5)
                          /\ res.entries[i].startTime = t[3]
                          /\ res.entries[i].endTime = t[4]
                    /\ IF rooms = {}
                       THEN /\ res.entries[i].room = <<"U","n","k","n","o","w","n"," ","R","o","o","m">>
                            /\ res.entries[i].confidence = (conf * 500) \div 1000
                       ELSE /\ \E m \in rooms :
                                  /\ \A e \in rooms : Weighted(m, r, c, 10) <= Weighted(e, r, c, 10)
                                  /\ res.entries[i].room = m[3]
                            /\ res.entries[i].confidence = conf

\* a header row, a Monday row, a Tuesday row: the lecture of the Tuesday
\* row has both day markers at or above it and takes the nearer one, the
\* first slot of the header and the room of the Monday row
C25_Witness ==
    /\ file = "rows"
    /\ Len(allStrategyResults) = 4
    /\ \E sh \in {workbook.sheets[1]} :
          /\ <<1, 0, "Monday">> \in DayMarkers(sh)
          /\ <<2, 0, "Tuesday">> \in DayMarkers(sh)
          /\ Cardinality(TimeMarkers(sh)) = 2
    /\ \E res \in {allStrategyResults[4]} :
          /\ res.strategyName = "brute-force"
          /\ \E i \in DOMAIN res.entries :
                /\ res.origins[i] = <<2, 2>>
                /\ res.entries[i].day = "Tuesday"
                /\ res.entries[i].startTime = <<"8",":","0","0"," ","A","M">>
                /\ res.entries[i].room = <<"R","o","o","m"," ","#","0","5">>


\* C26: after post-processing no section's final sequence holds two entries
\* of the same day, subject, teacher and room of which one ends when the
\* other starts: every run of back-to-back entries of one class has become
\* a single entry
C26_AllAdjacentMerged ==
    pc = "diagnostic" =>
        \A sec \in DOMAIN sectionData : \E es \in {sectionData[sec].entries} :
            \A i, j \in DOMAIN es :
                ~ /\ i # j
                  /\ es[i].day = es[j].day
                  /\ es[i].subject = es[j].subject
                  /\ es[i].teacher = es[j].teacher
                  /\ es[i].room = es[j].room
                  /\ time12ToMinutes(es[i].endTime) = time12ToMinutes(es[j].startTime)

\* the same for entries that follow one another in the final sequence: what
\* the merge loop establishes
NeighboursMerged ==
    pc = "diagnostic" =>
        \A sec \in DOMAIN sectionData : \E es \in {sectionData[sec].entries} :
            \A i \in 1..(Len(es) - 1) :
                ~ /\ es[i].day = es[i + 1].day
                  /\ es[i].subject = es[i + 1].subject
                  /\ es[i].teacher = es[i + 1].teacher
                  /\ es[i].room = es[i + 1].room
                  /\ time12ToMinutes(es[i].endTime) = time12ToMinutes(es[i + 1].startTime)


\* the number of entries listed under the keys secs of the answer's sectionData
RECURSIVE ListedCount(_)
ListedCount(secs) ==
    IF secs = {} THEN 0
    ELSE LET sec == CHOOSE x \in secs : TRUE
         IN  Len(response.body.sectionData[sec].entries) + ListedCount(secs \ {sec})

\* the number of merges the loop of mergeConsecutiveClasses makes with the
\* running entry cur on the entries rest
RECURSIVE MergeCount(_, _)
MergeCount(cur, rest) ==
    IF rest = <<>> THEN 0
    ELSE IF /\ \A k \in {"section", "day", "subject", "teacher", "room"} : cur[k] = Head(rest)[k]
            /\ time12ToMinutes(cur.endTime) = time12ToMinutes(Head(rest).startTime)
         THEN 1 + MergeCount([cur EXCEPT !.endTime = Head(rest).endTime], Tail(rest))
         ELSE MergeCount(Head(rest), Tail(rest))

\* the merges made in all the sections secs
RECURSIVE MergesIn(_)
MergesIn(secs) ==
    IF secs = {} THEN 0
    ELSE LET sec == CHOOSE x \in secs : TRUE
         IN  (IF BeforeMerge(sec) = <<>> THEN 0
              ELSE MergeCount(Head(BeforeMerge(sec)), Tail(BeforeMerge(sec))))
             + MergesIn(secs \ {sec})

\* C27: totalEntries is the number of deduplicated entries that pass the
\* filter, counted before the merge; it is at least the number of entries
\* listed under all keys of sectionData, equal to it when no merge was made
\* and above it by the number of merges otherwise
C27_TotalEntries ==
    (pc = "done" /\ response.status = 200) =>
        \E total \in {response.body.totalEntries},
           listed \in {ListedCount(DOMAIN response.body.sectionData)},
           merges \in {MergesIn({unique[i].section : i \in DOMAIN unique})} :
            /\ total = Cardinality({i \in DOMAIN unique :
                                       sectionFilter = <<>> \/ unique[i].section = sectionFilter})
            /\ total >= listed
            /\ total = listed + merges

\* three entries or more passed the filter and at least one of them was
\* merged into the entry before it: the answer lists fewer than it counts
C27_Witness ==
    /\ pc = "done"
    /\ response.status = 200
    /\ response.body.totalEntries >= 3
    /\ ListedCount(DOMAIN response.body.sectionData) < response.body.totalEntries
    /\ MergesIn(DOMAIN response.body.sectionData) >= 1


\* s holds the members of set without repetition, ordered by key
OrderedSetOf(s, set, key(_)) ==
    /\ Range(s) = set
    /\ Len(s) = Cardinality(set)
    /\ \A i \in 1..(Len(s) - 1) : key(s[i]) <= key(s[i + 1])

\* the start of a time label in minutes since midnight
LabelMinutes(label) == time12ToMinutes(LabelStart(label))

\* C28: for every section of sectionData, days holds the distinct days of
\* its entries in weekday order and times the distinct time labels of its
\* entries in the order of their start times; the keys of the grid are the
\* labels of times, and grid[t][d] is present exactly when an entry of the
\* section has day d and label t, holding the subject, teacher and room of
\* the first such entry of the section's sequence
C28_SectionInfo ==
    \A sec \in DOMAIN sectionData : \E info \in {sectionData[sec]} :
        /\ OrderedSetOf(info.days, {info.entries[i].day : i \in DOMAIN info.entries}, Weekday)
        /\ OrderedSetOf(info.times, {info.entries[i].time : i \in DOMAIN info.entries},
                        LabelMinutes)
        /\ DOMAIN info.grid = Range(info.times)
        /\ \A t \in DOMAIN info.grid : \A d \in Range(DAY_NAMES) :
              \E hits \in {{i \in DOMAIN info.entries :
                               info.entries[i].day = d /\ info.entries[i].time = t}} :
                  /\ d \in DOMAIN info.grid[t] <=> hits # {}
                  /\ hits # {} =>
                        \E first \in hits :
                            /\ \A i \in hits : first <= i
                            /\ info.grid[t][d].subject = info.entries[first].subject
                            /\ info.grid[t][d].teacher = info.entries[first].teacher
                            /\ info.grid[t][d].room = info.entries[first].room

\* a section with two time labels, where two entries of different subjects
\* share a day and a label: the grid cell holds the first of them
C28_Witness ==
    \E sec \in DOMAIN sectionData : \E info \in {sectionData[sec]} :
        /\ Len(info.times) >= 2
        /\ \E i, j \in DOMAIN info.entries :
              /\ i < j
              /\ info.entries[i].day = info.entries[j].day
              /\ info.entries[i].time = info.entries[j].time
              /\ info.entries[i].subject # info.entries[j].subject


\* once no upload is in flight, what the page shows and what local storage
\* caches is the result of the upload started last, when that upload was
\* answered with a result and Reset was not pressed after it
LatestUploadShown ==
    (home.requests = {} /\ home.latest.outcome = "ok" /\ ~home.resetSince) =>
        /\ home.data = ParseResultOf(home.latest.file, home.latest.field)
        /\ home.localStorage.timetable_data = ParseResultOf(home.latest.file, home.latest.field)

\* from Reset until the next upload is started the page shows no result and
\* local storage caches none
EmptyAfterReset ==
    home.resetSince =>
        /\ home.data = NoData
        /\ home.localStorage.timetable_data = NoData

\* loading is true exactly while some upload is in flight
LoadingWhileInFlight ==
    home.loading <=> (home.requests # {})

\* C29: on the upload page, once every upload in flight has completed, the
\* displayed result and the result cached in local storage are those of the
\* upload started last (no late answer of an earlier upload replaces them);
\* after Reset both stay empty until a new upload is started; loading is
\* true exactly while some upload is in flight
C29_OverlappingUploads ==
    /\ LatestUploadShown
    /\ EmptyAfterReset
    /\ LoadingWhileInFlight

\* what the code keeps: the answers are applied in the order they arrive, so
\* the page shows and caches the result answered last, and loading is false
\* whenever nothing is in flight
AppliedInArrivalOrder ==
    /\ home.requests = {} => ~home.loading
    /\ home.data # NoData => home.localStorage.timetable_data = home.data

\* the keys the page model gives the answers are those POST /api/parse
\* gives them for the first request of a process
SectionKeysAgree ==
    (pc = "done" /\ nReq = 1 /\ response.status = 200 /\ file \in PageFiles) =>
        SectionKeysOf(file, sectionFilter)
            = Pick(IF sectionFilter # <<>> THEN <<sectionFilter>> ELSE sectionsList,
                   {i \in DOMAIN (IF sectionFilter # <<>> THEN <<sectionFilter>> ELSE sectionsList) :
                       (IF sectionFilter # <<>> THEN <<sectionFilter>> ELSE sectionsList)[i]
                           \in DOMAIN response.body.sectionData})


\* the replies on which the function falls back: the request failed or
\* timed out, the answer holds no text, or its text is not JSON
FallbackReplies ==
    {r \in ServiceReplies : r.kind # "text" \/ ~r.text.parses}

\* C30: parseLectureCellsAI returns, for every input and every reply of the
\* service, an array with exactly one result per input cell; for no cell it
\* returns the empty array without calling the service; when the request
\* fails or times out, or the answer holds no text or text that is not
\* JSON, every result is the fallback lecture with subject "Unknown",
\* teacher "Unknown" and no section
C30_TotalLengthPreserving ==
    ai.pc = "returned" =>
        /\ ai.returned.array
        /\ Len(ai.returned.items) = Len(ai.cells)
        /\ (ai.cells = <<>>) => ~ai.posted
        /\ (ai.posted /\ ai.reply \in FallbackReplies) =>
              \A i \in DOMAIN ai.returned.items : ai.returned.items[i] = UnknownLecture

\* what the code keeps: the same, except that a text that is JSON is
\* returned as JSON.parse made it, whatever its length or shape
ParsedReplyReturnedAsIs ==
    ai.pc = "returned" =>
        /\ (ai.cells = <<>>) => (~ai.posted /\ ai.returned = [array |-> TRUE, items |-> <<>>])
        /\ (ai.posted /\ ai.reply \in FallbackReplies) => ai.returned = AiFallback(ai.cells)
        /\ (ai.posted /\ ai.reply \notin FallbackReplies) =>
              ai.returned = [array |-> ai.reply.text.array, items |-> ai.reply.text.items]

====
